---- MODULE Spec2Model ----
(***************************************************************************)
(* Model of the connection-oriented point-to-point management transport   *)
(* of knx-go (knx/management.go, knx/cemi/management.go).                  *)
(*                                                                         *)
(* A session (P2PConnection) is an object with the fields of the Go       *)
(* struct.  Goroutines are processes: the clients, which call Send and    *)
(* Disconnect, and one demultiplexer (serve) per session.  A step of the  *)
(* model is the code between two points where another goroutine can       *)
(* interleave observably: a section under conn.mu, a channel operation, a *)
(* tunnel send, a read of a shared field.  The tunnel is the environment: *)
(* it delivers cEMI messages on its inbound channel, may close it, and    *)
(* its Send may fail.  Timers (time.After) may fire at any moment of the  *)
(* wait they bound.                                                        *)
(***************************************************************************)
EXTENDS Integers, Sequences, FiniteSets, TLC

(***************************************************************************)
(* Bounds of the model.                                                    *)
(***************************************************************************)
NumClients == 2
MaxSessions == 2
MaxTunnelQueue == 1
\* Spec
MaxCalls == 2
MaxDeliver == 1
\* SpecResp
RespCalls == 1
RespDeliver == 3
\* SpecClose
CloseCalls == 2
CloseDeliver == 1
\* SpecPeer
PeerCalls == 2
PeerDeliver == 1
\* SpecSeq
MaxSends == 17
SeqDeliver == 2
\* SpecConn
ConnCalls == 2
ConnDeliver == 2
\* SpecMgmt
MgmtCalls == 3
MgmtDeliver == 2
\* SpecRate
RateCalls == 3
\* SpecQueue
QueueCalls == 1
QueueDeliver == 11
\* SpecLive
LiveCalls == 2
LiveDeliver == 1
\* SpecEnd
EndCalls == 2
EndDeliver == 1
\* SpecTunnel
TunnelCalls == 2
TunnelDeliver == 1
TicksPerSecond == 20
\* SpecTpdu
MaxData == 2
MaxCut == 2
\* SpecBlock
MaxBlocks == 2
\* SpecDib
MaxItems == 2
\* SpecBytes
MaxBytes == 3

(***************************************************************************)
(* Program constants.                                                      *)
(***************************************************************************)
InitialSeqNumber == 15
SeqModulus == 16
DefaultRateLimit == 20
InboundCapacity == 10
Connect == 0
Disconnect == 1
Ack == 2
Nak == 3
MemoryRead == 512
MemoryResponse == 576
UserMemoryRead == 704
PrefixUserMessage == 11
PrefixEscape == 15
MaxDataLength == 255
ApciBits == 10
DescriptionTypeDeviceInfo == 1
DescriptionTypeSupportedServiceFamilies == 2
DescriptionTypeIPConfig == 3
DescriptionTypeIPCurrentConfig == 4
DescriptionTypeKNXAddresses == 5
DescriptionTypeSecuredServiceFamilies == 6
DescriptionTypeTunnellingInfo == 7
DescriptionTypeExtendedDeviceInfo == 8
DescriptionTypeManufacturerData == 254
DeviceInfoSize == 54
IPConfigSize == 16
IPCurrentConfigSize == 20
ExtendedDeviceInfoSize == 8
ServiceFamilySize == 2
TunnellingSlotSize == 4
MandatoryBit == 128
SelectProgModeSize == 1
SelectMACAddrSize == 7
SelectSrvSRPSize == 3

Clients == 1 .. NumClients
Sessions == 1 .. MaxSessions
\* The goroutine running serve() of session s.
Demux(s) == 0 - s
Demuxes == {Demux(s) : s \in Sessions}
Procs == Clients \cup Demuxes
IsDemux(p) == p < 0

\* Individual addresses: the tunnel's own address and two bus devices.
LocalAddr == "local"
DeviceAddrs == {"devA", "devB"}
Addrs == {LocalAddr} \cup DeviceAddrs
\* tunnel.SourceAddr()
SourceAddr == LocalAddr

(***************************************************************************)
(* cEMI messages.  prim is the Go type of the message (LDataReq, LDataCon, *)
(* LDataInd), kind the Go type of LData.Data (AppData, ControlConn,        *)
(* ControlDisc, ControlAck, ControlNak).                                   *)
(***************************************************************************)
Msg(prim, src, dst, kind, numbered, sq, cmd) ==
    [prim |-> prim, src |-> src, dst |-> dst, kind |-> kind,
     numbered |-> numbered, seq |-> sq, cmd |-> cmd]

NoMsg == Msg("nil", "none", "none", "nil", FALSE, 0, 0)

NewConnReq(src, dst) == Msg("LDataReq", src, dst, "ControlConn", FALSE, 0, Connect)

NewDiscReq(src, dst) == Msg("LDataReq", src, dst, "ControlDisc", FALSE, 0, Disconnect)

NewAck(src, dst, sq) == Msg("LDataReq", src, dst, "ControlAck", TRUE, sq, Ack)

\* A caller's request: an L_Data.req wrapping an AppData, not yet numbered.
DataReq(dst, cmd) == Msg("LDataReq", SourceAddr, dst, "AppData", FALSE, 0, cmd)

\* What the device puts on the bus, as the tunnel delivers it.
AckInd(src, dst, sq) == Msg("LDataInd", src, dst, "ControlAck", TRUE, sq, Ack)
AppInd(src, dst, sq, cmd) == Msg("LDataInd", src, dst, "AppData", TRUE, sq, cmd)
DiscInd(src, dst) == Msg("LDataInd", src, dst, "ControlDisc", FALSE, 0, Disconnect)
ConnCon(src, dst) == Msg("LDataCon", src, dst, "ControlConn", FALSE, 0, Connect)

VARIABLES
    \* the fields of each P2PConnection
    created,        \* the object exists
    targetAddr,
    seqNumber,
    lastSend,       \* age of conn.lastSend in ticks, saturated at the interval
    connected,
    inbound,        \* conn.inbound: buffered channel, capacity InboundCapacity
    inboundClosed,
    done,           \* conn.done is closed
    wait,           \* conn.wait: the WaitGroup's counter
    \* the tunnel
    tunnelInbound,  \* tunnel.inbound: messages delivered, not yet received
    tunnelClosed,   \* tunnel.inbound is closed
    \* the Management
    connections,    \* m.connections: the session of an address, 0 for no entry
    mgmtMu,         \* the goroutine holding m.mu, 0 for none
    mgmtDone,       \* m.done is closed
    \* the goroutines
    pc,
    locals,         \* the arguments and local variables of the call in progress
    wake,           \* applyRateLimit: ticks left to sleep
    result,         \* the last return of a call: who returned, and what
    \* the run
    panicked,       \* a goroutine panicked: the program is gone
    toDeliver,      \* messages the tunnel may still deliver
    calls,          \* calls the clients may still make
    nAlloc,         \* sequence numbers allocated by nextSeqNum so far
    nOk,            \* calls of Send that returned a response so far
    lastTx,         \* the number of the last data frame the tunnel took, -1 for none
    \* the codecs
    codecPc,        \* where the codec run stands
    codecIn,        \* the value handed to Pack
    codecWire,      \* the bytes Pack wrote, or the bytes received
    codecOut        \* what Unpack returned

connVars == <<created, targetAddr, seqNumber, lastSend, connected, inbound,
              inboundClosed, done, wait>>
tunnelVars == <<tunnelInbound, tunnelClosed>>
mgmtVars == <<connections, mgmtMu, mgmtDone>>
procVars == <<pc, locals, wake, result>>
runVars == <<panicked, toDeliver, calls, nAlloc, nOk, lastTx>>
codecVars == <<codecPc, codecIn, codecWire, codecOut>>
vars == <<connVars, tunnelVars, mgmtVars, procVars, runVars, codecVars>>

(***************************************************************************)
(* Time.  One second is TicksPerSecond ticks.                              *)
(***************************************************************************)
Second == TicksPerSecond

\* applyRateLimit, line 373: interval := time.Second / time.Duration(conn.rateLimit)
Interval(rate) == Second \div rate

Min(a, b) == IF a < b THEN a ELSE b
Max(a, b) == IF a > b THEN a ELSE b

\* An age beyond the interval is as good as the interval.
Age(t) == Min(t, Interval(DefaultRateLimit))

(***************************************************************************)
(* The frame of a call: conn (self), the arguments req and exp of Send,    *)
(* its locals seq and ind, the local err of Disconnect, the statement      *)
(* applyRateLimit returns to (cont), and the frames the call has handed to *)
(* the tunnel so far (sent).  A call made by a method of Management has    *)
(* that method's frame below it: the method (mgmt), its argument addr, its *)
(* locals conn and err, which take what the call returns, and the entries  *)
(* the loop of Close has still to visit (todo).                            *)
(***************************************************************************)
NoLocals ==
    [self |-> 0, seq |-> 0, req |-> NoMsg, exp |-> 0, ind |-> NoMsg,
     err |-> "none", cont |-> "none", sent |-> <<>>,
     mgmt |-> "none", addr |-> "none", conn |-> 0, todo |-> {}]

\* The frame of serve: its receiver.
ServeLocals(s) == [NoLocals EXCEPT !.self = s]

(***************************************************************************)
(* What a call returns to goroutine p: the error ("none" for nil), the     *)
(* message a Send returns, the session NewP2PConnection returns (0 for     *)
(* nil); and, for the record, the frames the call handed to the tunnel.    *)
(***************************************************************************)
Result(p, op, e, val, conn, frames) ==
    [proc |-> p, op |-> op, err |-> e, val |-> val, conn |-> conn, sent |-> frames]
NoResult == Result(0, "none", "none", NoMsg, 0, <<>>)

ErrNotConnected == "not connected to device"
ErrPayload == "expected LDataReq wrapping AppData"
ErrSend == "failed to send request"
ErrAckTimeout == "timed out while waiting for ACK"
ErrAckMismatch == "ack sequence number must match request sequence number"
ErrClosed == "connection was closed"
ErrTimeout == "response timed out"
ErrSendAck == "failed to send ACK"
ErrSendDisc == "failed to send T_DISCONNECT"
ErrSendConn == "failed to send T_CONNECT"
ErrResponseTimeout == "response timeout"
ErrTunnelClosed == "tunnel was closed before a connection could be established"
ErrNotFound == "connection not found"

(***************************************************************************)
(* Helpers of the actions.                                                 *)
(***************************************************************************)
\* Where the call of goroutine p returns to: its caller outside the model,
\* or the statement of the method of Management that made the call.
ReturnPc(p) ==
    CASE locals[p].mgmt = "none" -> "idle"
      [] locals[p].mgmt = "Connect" -> "mgmtConnectRet"
      [] locals[p].mgmt = "Disconnect" -> "mgmtDisconnectRet"
      [] locals[p].mgmt = "Close" -> "mgmtCloseNext"

\* The frame that is left when the call returns e and conn.
ReturnLocals(p, e, conn) ==
    IF locals[p].mgmt = "none"
    THEN NoLocals
    ELSE [NoLocals EXCEPT !.mgmt = locals[p].mgmt, !.addr = locals[p].addr,
                          !.todo = locals[p].todo, !.sent = locals[p].sent,
                          !.err = e, !.conn = conn]

\* What the caller outside the model has got.
ReturnResult(p, op, e, val, conn) ==
    IF locals[p].mgmt = "none"
    THEN Result(p, op, e, val, conn, locals[p].sent)
    ELSE result

\* The call of goroutine p returns: its frame is gone.
Return(p, op, e, val, conn) ==
    /\ pc' = [pc EXCEPT ![p] = ReturnPc(p)]
    /\ result' = ReturnResult(p, op, e, val, conn)
    /\ locals' = [locals EXCEPT ![p] = ReturnLocals(p, e, conn)]

Goto(p, label) ==
    /\ pc' = [pc EXCEPT ![p] = label]
    /\ UNCHANGED result

\* A receive from a channel that is ready: the head of its buffer, or the
\* zero value (nil) when it is closed and drained.
Recv(ch) == IF Len(ch) > 0 THEN Head(ch) ELSE NoMsg
Rest(ch) == IF Len(ch) > 0 THEN Tail(ch) ELSE ch

(***************************************************************************)
(* nextSeqNum, line 305: conn.seqNumber = (conn.seqNumber + 1) % 16.       *)
(***************************************************************************)
\* The counter without the modulus of line 305.
nextSeqNumUnwrapped(n) == n + 1

nextSeqNum(n) == (n + 1) % SeqModulus

(***************************************************************************)
(* setSeqNum: the request must be an LDataReq wrapping an AppData; it is   *)
(* then numbered with the sequence number.                                 *)
(***************************************************************************)
\* A test of the message only, not of what it wraps (lines 359-362 left out).
setSeqNumOkAnyData(r) == r.prim = "LDataReq"

setSeqNumOk(r) == r.prim = "LDataReq" /\ r.kind = "AppData"

setSeqNum(r, n) == [r EXCEPT !.numbered = TRUE, !.seq = n]

(***************************************************************************)
(* Send, lines 57-60: the call and its read of conn.connected.             *)
(***************************************************************************)
\* Send without lines 58-60: the call goes on whatever conn.connected says.
SendUnchecked(c, s, r, e) ==
    /\ ~panicked
    /\ pc[c] = "idle"
    /\ calls > 0
    /\ created[s]
    /\ calls' = calls - 1
    /\ pc' = [pc EXCEPT ![c] = "nextSeqNum"]
    /\ locals' = [locals EXCEPT ![c] = [NoLocals EXCEPT !.self = s, !.req = r, !.exp = e]]
    /\ UNCHANGED <<codecVars, mgmtVars, connVars, tunnelVars, wake, result, panicked, toDeliver, nAlloc, nOk, lastTx>>

Send(c, s, r, e) ==
    /\ ~panicked
    /\ pc[c] = "idle"
    /\ calls > 0
    /\ created[s]
    /\ calls' = calls - 1
    /\ IF ~connected[s]
       THEN Return(c, "Send", ErrNotConnected, NoMsg, 0)
       ELSE /\ pc' = [pc EXCEPT ![c] = "nextSeqNum"]
            /\ locals' = [locals EXCEPT ![c] = [NoLocals EXCEPT !.self = s, !.req = r, !.exp = e]]
            /\ UNCHANGED result
    /\ UNCHANGED <<codecVars, mgmtVars, connVars, tunnelVars, wake, panicked, toDeliver, nAlloc, nOk, lastTx>>

(***************************************************************************)
(* Send, lines 62-67: nextSeqNum under conn.mu, then setSeqNum on the      *)
(* caller's request.                                                       *)
(***************************************************************************)
SendNextSeqNum(c) ==
    /\ ~panicked
    /\ pc[c] = "nextSeqNum"
    /\ LET s == locals[c].self
           n == nextSeqNum(seqNumber[s])
       IN  /\ seqNumber' = [seqNumber EXCEPT ![s] = n]
           /\ nAlloc' = nAlloc + 1
           /\ IF setSeqNumOk(locals[c].req)
              THEN /\ locals' = [locals EXCEPT ![c].seq = n,
                                              ![c].req = setSeqNum(@, n),
                                              ![c].cont = "sendTx"]
                   /\ Goto(c, "applyRateLimit")
              ELSE Return(c, "Send", ErrPayload, NoMsg, 0)
    /\ UNCHANGED <<codecVars, mgmtVars, created, targetAddr, lastSend, connected, inbound, inboundClosed,
                   done, wait, tunnelVars, wake, panicked, toDeliver, calls, nOk, lastTx>>

(***************************************************************************)
(* applyRateLimit, lines 371-383.  Under conn.mu: a sender that finds the  *)
(* last send younger than the interval releases the mutex and sleeps the   *)
(* difference; otherwise it sets lastSend to now.                          *)
(***************************************************************************)
applyRateLimit(p) ==
    /\ ~panicked
    /\ pc[p] = "applyRateLimit"
    /\ LET s == locals[p].self
           interval == Interval(DefaultRateLimit)
           elapsed == lastSend[s]
       IN  IF elapsed < interval
           THEN /\ wake' = [wake EXCEPT ![p] = interval - elapsed]
                /\ Goto(p, "sleep")
                /\ UNCHANGED lastSend
           ELSE /\ lastSend' = [lastSend EXCEPT ![s] = 0]
                /\ Goto(p, locals[p].cont)
                /\ UNCHANGED wake
    /\ UNCHANGED <<codecVars, mgmtVars, created, targetAddr, seqNumber, connected, inbound, inboundClosed,
                   done, wait, tunnelVars, locals, runVars>>

\* applyRateLimit, lines 378-382: the sleep is over; lastSend is set to now
\* under conn.mu.
applyRateLimitWake(p) ==
    /\ ~panicked
    /\ pc[p] = "sleep"
    /\ wake[p] = 0
    /\ lastSend' = [lastSend EXCEPT ![locals[p].self] = 0]
    /\ Goto(p, locals[p].cont)
    /\ UNCHANGED <<codecVars, mgmtVars, created, targetAddr, seqNumber, connected, inbound, inboundClosed,
                   done, wait, tunnelVars, locals, wake, runVars>>

\* Time passes: every lastSend ages, every sleeper is a tick closer to waking.
\* Only applyRateLimit reads the clock, and a tick commutes with every step
\* that does not: the ticks that matter are those taken while some goroutine
\* is in applyRateLimit.
Tick ==
    /\ ~panicked
    /\ \E p \in Procs : pc[p] \in {"applyRateLimit", "sleep"}
    /\ ~ (/\ \A s \in Sessions : lastSend[s] >= Interval(DefaultRateLimit)
          /\ \A p \in Procs : wake[p] = 0)
    /\ lastSend' = [s \in Sessions |-> Age(lastSend[s] + 1)]
    /\ wake' = [p \in Procs |-> Max(0, wake[p] - 1)]
    /\ UNCHANGED <<codecVars, mgmtVars, created, targetAddr, seqNumber, connected, inbound, inboundClosed,
                   done, wait, tunnelVars, pc, locals, result, runVars>>

(***************************************************************************)
(* Send, lines 71-75: the numbered request goes to the tunnel, whose Send  *)
(* returns nil or an error.                                                *)
(***************************************************************************)
SendTx(c) ==
    /\ ~panicked
    /\ pc[c] = "sendTx"
    /\ \E ok \in BOOLEAN :
          IF ok
          THEN /\ locals' = [locals EXCEPT ![c].sent = Append(@, locals[c].req)]
               /\ lastTx' = [lastTx EXCEPT ![locals[c].self] = locals[c].req.seq]
               /\ Goto(c, "awaitAck")
          ELSE /\ Return(c, "Send", ErrSend, NoMsg, 0)
               /\ UNCHANGED lastTx
    /\ UNCHANGED <<codecVars, mgmtVars, connVars, tunnelVars, wake, panicked, toDeliver, calls,
                   nAlloc, nOk>>

(***************************************************************************)
(* awaitAck, lines 311-347.  The select takes any ready case: the timer,   *)
(* the closed done channel, or a message (or nil) from conn.inbound.       *)
(***************************************************************************)
\* An awaitAck that gave the session up on a timeout, as Disconnect does at
\* lines 144-146.
AwaitAckTimeoutClosing(c) ==
    /\ ~panicked
    /\ pc[c] = "awaitAck"
    /\ connected' = [connected EXCEPT ![locals[c].self] = FALSE]
    /\ Return(c, "Send", ErrAckTimeout, NoMsg, 0)
    /\ UNCHANGED <<codecVars, mgmtVars, created, targetAddr, seqNumber, lastSend, inbound, inboundClosed,
                   done, wait, tunnelVars, wake, runVars>>

\* A timeout that is looked at only when a message has arrived.
AwaitAckTimeoutOnMessage(c) ==
    /\ ~panicked
    /\ pc[c] = "awaitAck"
    /\ Len(inbound[locals[c].self]) > 0
    /\ Return(c, "Send", ErrAckTimeout, NoMsg, 0)
    /\ UNCHANGED <<codecVars, mgmtVars, connVars, tunnelVars, wake, runVars>>

AwaitAckTimeout(c) ==
    /\ ~panicked
    /\ pc[c] = "awaitAck"
    /\ Return(c, "Send", ErrAckTimeout, NoMsg, 0)
    /\ UNCHANGED <<codecVars, mgmtVars, connVars, tunnelVars, wake, runVars>>

AwaitAckDone(c) ==
    /\ ~panicked
    /\ pc[c] = "awaitAck"
    /\ done[locals[c].self]
    /\ Return(c, "Send", ErrClosed, NoMsg, 0)
    /\ UNCHANGED <<codecVars, mgmtVars, connVars, tunnelVars, wake, runVars>>

\* Line 337: the acknowledgement is compared with conn.seqNumber, the field
\* of the session, read without conn.mu.
ackSeqExpected(c) == seqNumber[locals[c].self]

AwaitAckRecv(c) ==
    /\ ~panicked
    /\ pc[c] = "awaitAck"
    /\ LET s == locals[c].self
           res == Recv(inbound[s])
       IN  /\ Len(inbound[s]) > 0 \/ inboundClosed[s]
           /\ inbound' = [inbound EXCEPT ![s] = Rest(@)]
           /\ IF res.prim # "LDataInd" \/ res.kind # "ControlAck"
              THEN Goto(c, "awaitAck") /\ UNCHANGED locals
              ELSE IF res.seq # ackSeqExpected(c)
                   THEN Return(c, "Send", ErrAckMismatch, NoMsg, 0)
                   ELSE Goto(c, "awaitResp") /\ UNCHANGED locals
    /\ UNCHANGED <<codecVars, mgmtVars, created, targetAddr, seqNumber, lastSend, connected, inboundClosed,
                   done, wait, tunnelVars, wake, runVars>>

(***************************************************************************)
(* Send, lines 84-123: the wait for the response.                          *)
(***************************************************************************)
AwaitRespTimeout(c) ==
    /\ ~panicked
    /\ pc[c] = "awaitResp"
    /\ Return(c, "Send", ErrTimeout, NoMsg, 0)
    /\ UNCHANGED <<codecVars, mgmtVars, connVars, tunnelVars, wake, runVars>>

AwaitRespDone(c) ==
    /\ ~panicked
    /\ pc[c] = "awaitResp"
    /\ done[locals[c].self]
    /\ Return(c, "Send", ErrClosed, NoMsg, 0)
    /\ UNCHANGED <<codecVars, mgmtVars, connVars, tunnelVars, wake, runVars>>

\* Lines 99-110: the response is an LDataInd wrapping an AppData whose command
\* is the expected one.
isResponse(res, e) == res.prim = "LDataInd" /\ res.kind = "AppData" /\ res.cmd = e

AwaitRespRecv(c) ==
    /\ ~panicked
    /\ pc[c] = "awaitResp"
    /\ LET s == locals[c].self
           res == Recv(inbound[s])
       IN  /\ Len(inbound[s]) > 0 \/ inboundClosed[s]
           /\ inbound' = [inbound EXCEPT ![s] = Rest(@)]
           /\ IF isResponse(res, locals[c].exp)
              THEN /\ locals' = [locals EXCEPT ![c].ind = res, ![c].cont = "ackTx"]
                   /\ Goto(c, "applyRateLimit")
              ELSE Goto(c, "awaitResp") /\ UNCHANGED locals
    /\ UNCHANGED <<codecVars, mgmtVars, created, targetAddr, seqNumber, lastSend, connected, inboundClosed,
                   done, wait, tunnelVars, wake, runVars>>

\* A T_ACK addressed to the destination of the response instead of its source.
responseAckToDestination(res) == NewAck(SourceAddr, res.dst, res.seq)

\* Line 115: the T_ACK for the response.
responseAck(res) == NewAck(SourceAddr, res.src, res.seq)

\* Lines 115-121: the T_ACK goes to the tunnel and the indication is returned.
SendAckTx(c) ==
    /\ ~panicked
    /\ pc[c] = "ackTx"
    /\ \E ok \in BOOLEAN :
          /\ pc' = [pc EXCEPT ![c] = "idle"]
          /\ locals' = [locals EXCEPT ![c] = NoLocals]
          /\ result' =
                IF ok
                THEN Result(c, "Send", "none", locals[c].ind, 0,
                            Append(locals[c].sent, responseAck(locals[c].ind)))
                ELSE Result(c, "Send", ErrSendAck, NoMsg, 0, locals[c].sent)
          /\ nOk' = IF ok THEN nOk + 1 ELSE nOk
    /\ UNCHANGED <<codecVars, mgmtVars, connVars, tunnelVars, wake, panicked, toDeliver, calls, nAlloc,
                   lastTx>>

(***************************************************************************)
(* Disconnect, lines 127-160.  It is called by a client, and by the demux  *)
(* goroutine from handleDisconnect (line 266).                             *)
(***************************************************************************)
\* Disconnect returns e to its caller: a client, or handleDisconnect, which
\* drops the value and goes on at line 269.
DisconnectReturn(p, e) ==
    IF IsDemux(p)
    THEN /\ Goto(p, "hdSelect")
         /\ locals' = [locals EXCEPT ![p] = ServeLocals(locals[p].self)]
    ELSE Return(p, "Disconnect", e, NoMsg, 0)

\* Disconnect without lines 130-133: it goes on whatever conn.connected says.
disconnectEntryUnchecked(p, s) ==
    /\ locals' = [locals EXCEPT ![p].self = s, ![p].cont = "discTx"]
    /\ pc' = [pc EXCEPT ![p] = "applyRateLimit"]
    /\ UNCHANGED result

\* Lines 128-135: under conn.mu, a session that is not connected returns nil.
disconnectEntry(p, s) ==
    IF ~connected[s]
    THEN DisconnectReturn(p, "none")
    ELSE /\ locals' = [locals EXCEPT ![p].self = s, ![p].cont = "discTx"]
         /\ pc' = [pc EXCEPT ![p] = "applyRateLimit"]
         /\ UNCHANGED result

\* A client calls conn.Disconnect().
DisconnectCall(c, s) ==
    /\ ~panicked
    /\ pc[c] = "idle"
    /\ calls > 0
    /\ created[s]
    /\ calls' = calls - 1
    /\ disconnectEntry(c, s)
    /\ UNCHANGED <<codecVars, mgmtVars, connVars, tunnelVars, wake, panicked, toDeliver, nAlloc, nOk, lastTx>>

\* Lines 138-139: the T_DISCONNECT goes to the tunnel; the error is kept.
DisconnectTx(p) ==
    /\ ~panicked
    /\ pc[p] = "discTx"
    /\ \E ok \in BOOLEAN :
          IF ok
          THEN locals' = [locals EXCEPT
                            ![p].sent = Append(@, NewDiscReq(SourceAddr,
                                                            targetAddr[locals[p].self])),
                            ![p].err = "none"]
          ELSE locals' = [locals EXCEPT ![p].err = ErrSendDisc]
    /\ Goto(p, "discMark")
    /\ UNCHANGED <<codecVars, mgmtVars, connVars, tunnelVars, wake, runVars>>

\* Lines 144-146: connected = false, under conn.mu.
DisconnectMark(p) ==
    /\ ~panicked
    /\ pc[p] = "discMark"
    /\ connected' = [connected EXCEPT ![locals[p].self] = FALSE]
    /\ Goto(p, "discSelect")
    /\ UNCHANGED <<codecVars, mgmtVars, created, targetAddr, seqNumber, lastSend, inbound, inboundClosed,
                   done, wait, tunnelVars, locals, wake, runVars>>

\* Lines 149-152: the select finds done closed, or takes the default case.
DisconnectSelect(p) ==
    /\ ~panicked
    /\ pc[p] = "discSelect"
    /\ Goto(p, IF done[locals[p].self] THEN "discWait" ELSE "discClose")
    /\ UNCHANGED <<codecVars, mgmtVars, connVars, tunnelVars, locals, wake, runVars>>

\* close(conn.done): closing a closed channel panics.
closeDone(p) ==
    IF done[locals[p].self]
    THEN /\ panicked' = TRUE
         /\ UNCHANGED done
    ELSE /\ done' = [done EXCEPT ![locals[p].self] = TRUE]
         /\ UNCHANGED panicked

\* Line 153: close(conn.done).
DisconnectClose(p) ==
    /\ ~panicked
    /\ pc[p] = "discClose"
    /\ closeDone(p)
    /\ Goto(p, "discWait")
    /\ UNCHANGED <<codecVars, mgmtVars, created, targetAddr, seqNumber, lastSend, connected, inbound,
                   inboundClosed, wait, tunnelVars, locals, wake, toDeliver, calls,
                   nAlloc, nOk, lastTx>>

\* Lines 157-159: conn.wait.Wait() returns once the counter is zero.
DisconnectWait(p) ==
    /\ ~panicked
    /\ pc[p] = "discWait"
    /\ wait[locals[p].self] = 0
    /\ DisconnectReturn(p, locals[p].err)
    /\ UNCHANGED <<codecVars, mgmtVars, connVars, tunnelVars, wake, runVars>>

(***************************************************************************)
(* serve, lines 214-245: the demux goroutine of a session.                 *)
(***************************************************************************)
\* handleDisconnect, lines 250-261: an LDataInd whose destination is the
\* target and whose source is the tunnel's address, wrapping a ControlDisc.
isDisconnect(msg, s) ==
    /\ msg.prim = "LDataInd"
    /\ msg.dst = targetAddr[s]
    /\ msg.src = SourceAddr
    /\ msg.kind = "ControlDisc"

\* A send that puts the message in front of those waiting in the channel.
forwardInFront(ch, msg) == IF Len(ch) < InboundCapacity THEN <<msg>> \o ch ELSE ch

\* A send that takes the message whatever the channel holds.
forwardUnbounded(ch, msg) == Append(ch, msg)

\* Lines 235-242: the non-blocking send to conn.inbound; a full channel drops
\* the message.
forward(ch, msg) == IF Len(ch) < InboundCapacity THEN Append(ch, msg) ELSE ch

\* Lines 221-222: the select takes the closed done channel.
ServeDone(d) ==
    /\ ~panicked
    /\ pc[d] = "serve"
    /\ done[locals[d].self]
    /\ Goto(d, "exitClose")
    /\ UNCHANGED <<codecVars, mgmtVars, connVars, tunnelVars, locals, wake, runVars>>

\* Lines 225-243: the select takes the tunnel's inbound channel.  A closed
\* channel leads to handleTunnelClosed, whose first statement marks the
\* session disconnected (lines 286-288); a disconnect request for a connected
\* session (line 262, read without conn.mu) leads to the call of Disconnect;
\* any other message is forwarded.
ServeRecv(d) ==
    /\ ~panicked
    /\ pc[d] = "serve"
    /\ Len(tunnelInbound) > 0 \/ tunnelClosed
    /\ LET s == locals[d].self
           msg == Recv(tunnelInbound)
       IN  /\ tunnelInbound' = Rest(tunnelInbound)
           /\ IF Len(tunnelInbound) = 0
              THEN /\ connected' = [connected EXCEPT ![s] = FALSE]
                   /\ Goto(d, "tcSelect")
                   /\ UNCHANGED inbound
              ELSE IF isDisconnect(msg, s)
                   THEN /\ Goto(d, IF connected[s] THEN "hdDisconnect" ELSE "serve")
                        /\ UNCHANGED <<connected, inbound>>
                   ELSE /\ inbound' = [inbound EXCEPT ![s] = forward(@, msg)]
                        /\ Goto(d, "serve")
                        /\ UNCHANGED connected
    /\ UNCHANGED <<codecVars, mgmtVars, created, targetAddr, seqNumber, lastSend, inboundClosed, done, wait,
                   tunnelClosed, locals, wake, runVars>>

\* handleDisconnect, line 266: conn.Disconnect() on the demux goroutine.
HandleDisconnectCall(d) ==
    /\ ~panicked
    /\ pc[d] = "hdDisconnect"
    /\ disconnectEntry(d, locals[d].self)
    /\ UNCHANGED <<codecVars, mgmtVars, connVars, tunnelVars, wake, runVars>>

\* handleDisconnect, lines 269-272: the select after Disconnect returned.
HandleDisconnectSelect(d) ==
    /\ ~panicked
    /\ pc[d] = "hdSelect"
    /\ Goto(d, IF done[locals[d].self] THEN "serve" ELSE "hdClose")
    /\ UNCHANGED <<codecVars, mgmtVars, connVars, tunnelVars, locals, wake, runVars>>

\* handleDisconnect, line 273: close(conn.done).
HandleDisconnectClose(d) ==
    /\ ~panicked
    /\ pc[d] = "hdClose"
    /\ closeDone(d)
    /\ Goto(d, "serve")
    /\ UNCHANGED <<codecVars, mgmtVars, created, targetAddr, seqNumber, lastSend, connected, inbound,
                   inboundClosed, wait, tunnelVars, locals, wake, toDeliver, calls,
                   nAlloc, nOk, lastTx>>

\* handleTunnelClosed, lines 291-294: the select on done.
TunnelClosedSelect(d) ==
    /\ ~panicked
    /\ pc[d] = "tcSelect"
    /\ Goto(d, IF done[locals[d].self] THEN "exitClose" ELSE "tcClose")
    /\ UNCHANGED <<codecVars, mgmtVars, connVars, tunnelVars, locals, wake, runVars>>

\* A close(conn.done) that is left out.
closeDoneSkipped(p) == UNCHANGED <<done, panicked>>

\* handleTunnelClosed, line 295: close(conn.done).
tunnelClosedCloseDone(d) == closeDone(d)

\* handleTunnelClosed, lines 295-296: done is closed and serve returns.
TunnelClosedClose(d) ==
    /\ ~panicked
    /\ pc[d] = "tcClose"
    /\ tunnelClosedCloseDone(d)
    /\ Goto(d, "exitClose")
    /\ UNCHANGED <<codecVars, mgmtVars, created, targetAddr, seqNumber, lastSend, connected, inbound,
                   inboundClosed, wait, tunnelVars, locals, wake, toDeliver, calls,
                   nAlloc, nOk, lastTx>>

\* The deferred calls in the order the defer statements are written: first
\* line 215, then line 216.
deferredFifo(n) == IF n = 1 THEN "conn.wait.Done()" ELSE "close(conn.inbound)"

\* serve returns and its deferred calls run, last in first out: the first to
\* run is line 216, close(conn.inbound), the second line 215, conn.wait.Done().
deferred(n) == IF n = 1 THEN "close(conn.inbound)" ELSE "conn.wait.Done()"

ServeExit(d) ==
    /\ ~panicked
    /\ pc[d] \in {"exitClose", "exitDone"}
    /\ LET s == locals[d].self
           call == deferred(IF pc[d] = "exitClose" THEN 1 ELSE 2)
       IN  IF call = "close(conn.inbound)"
           THEN /\ inboundClosed' = [inboundClosed EXCEPT ![s] = TRUE]
                /\ UNCHANGED wait
           ELSE /\ wait' = [wait EXCEPT ![s] = @ - 1]
                /\ UNCHANGED inboundClosed
    /\ Goto(d, IF pc[d] = "exitClose" THEN "exitDone" ELSE "exited")
    /\ UNCHANGED <<codecVars, mgmtVars, created, targetAddr, seqNumber, lastSend, connected, inbound, done,
                   tunnelVars, locals, wake, runVars>>

(***************************************************************************)
(* NewP2PConnection, lines 30-53, and requestConn, lines 168-211.          *)
(***************************************************************************)
\* A constructor that takes the object of a session that is closed.
NextSessionReused ==
    CHOOSE s \in Sessions : ~connected[s] /\ \A r \in Sessions : r < s => connected[r]

\* The object a call of NewP2PConnection allocates.
NextSession ==
    CHOOSE s \in Sessions : ~created[s] /\ \A r \in Sessions : r < s => created[r]

\* Lines 32-40 and 169-174: the new object; requestConn finds it not connected.
newP2PConnection(c, addr) ==
    /\ \E s \in Sessions : ~created[s]
    /\ LET s == NextSession
       IN  /\ created' = [created EXCEPT ![s] = TRUE]
           /\ targetAddr' = [targetAddr EXCEPT ![s] = addr]
           /\ seqNumber' = [seqNumber EXCEPT ![s] = InitialSeqNumber]
           /\ lastSend' = [lastSend EXCEPT ![s] = Age(Second)]
           /\ inbound' = [inbound EXCEPT ![s] = <<>>]
           /\ locals' = [locals EXCEPT ![c].self = s]
    /\ pc' = [pc EXCEPT ![c] = "connTx"]

\* A client calls NewP2PConnection(tunnel, addr).
NewP2PConnection(c, addr) ==
    /\ ~panicked
    /\ pc[c] = "idle"
    /\ calls > 0
    /\ newP2PConnection(c, addr)
    /\ calls' = calls - 1
    /\ UNCHANGED <<codecVars, mgmtVars, result, connected, inboundClosed, done, wait, tunnelVars, wake, panicked,
                   toDeliver, nAlloc, nOk, lastTx>>

\* Lines 44-46: requestConn failed and NewP2PConnection returns nil; nothing
\* refers to the object any more.
discard(s) ==
    /\ created' = [created EXCEPT ![s] = FALSE]
    /\ targetAddr' = [targetAddr EXCEPT ![s] = "none"]

\* Lines 177-181: the T_CONNECT goes to the tunnel.
RequestConnTx(c) ==
    /\ ~panicked
    /\ pc[c] = "connTx"
    /\ \E ok \in BOOLEAN :
          IF ok
          THEN /\ locals' = [locals EXCEPT
                               ![c].sent = Append(@, NewConnReq(SourceAddr,
                                                               targetAddr[locals[c].self]))]
               /\ Goto(c, "connWait")
               /\ UNCHANGED <<created, targetAddr>>
          ELSE /\ Return(c, "NewP2PConnection", ErrSendConn, NoMsg, 0)
               /\ discard(locals[c].self)
    /\ UNCHANGED <<codecVars, mgmtVars, seqNumber, lastSend, connected, inbound, inboundClosed, done, wait,
                   tunnelVars, wake, runVars>>

\* Lines 190-191: the response timeout of the tunnel's configuration.
RequestConnTimeout(c) ==
    /\ ~panicked
    /\ pc[c] = "connWait"
    /\ Return(c, "NewP2PConnection", ErrResponseTimeout, NoMsg, 0)
    /\ discard(locals[c].self)
    /\ UNCHANGED <<codecVars, mgmtVars, seqNumber, lastSend, connected, inbound, inboundClosed, done, wait,
                   tunnelVars, wake, runVars>>

\* A filter that looks at the primitive only, not at the payload of line 202.
isConnConfirmAnyPayload(msg) == msg.prim = "LDataCon"

\* Lines 200-203: an L_Data.con wrapping a T_CONNECT.
isConnConfirm(msg) == msg.prim = "LDataCon" /\ msg.kind = "ControlConn"

\* Lines 194-208 and 49-52: a message of the tunnel's inbound channel.  The
\* confirmation marks the session connected; NewP2PConnection then starts
\* serve and returns the session.
RequestConnRecv(c) ==
    /\ ~panicked
    /\ pc[c] = "connWait"
    /\ Len(tunnelInbound) > 0 \/ tunnelClosed
    /\ LET s == locals[c].self
           msg == Recv(tunnelInbound)
       IN  /\ tunnelInbound' = Rest(tunnelInbound)
           /\ IF Len(tunnelInbound) = 0
              THEN /\ Return(c, "NewP2PConnection", ErrTunnelClosed, NoMsg, 0)
                   /\ discard(s)
                   /\ UNCHANGED <<connected, wait>>
              ELSE IF isConnConfirm(msg)
                   THEN /\ UNCHANGED <<created, targetAddr>>
                        /\ connected' = [connected EXCEPT ![s] = TRUE]
                        /\ wait' = [wait EXCEPT ![s] = @ + 1]
                        /\ pc' = [pc EXCEPT ![c] = ReturnPc(c), ![Demux(s)] = "serve"]
                        /\ locals' = [locals EXCEPT ![c] = ReturnLocals(c, "none", s)]
                        /\ result' = ReturnResult(c, "NewP2PConnection", "none", NoMsg, s)
                   ELSE /\ Goto(c, "connWait")
                        /\ UNCHANGED <<created, targetAddr, connected, wait, locals>>
    /\ UNCHANGED <<codecVars, mgmtVars, seqNumber, lastSend, inbound, inboundClosed,
                   done, tunnelClosed, wake, runVars>>

(***************************************************************************)
(* Management, lines 385-475: the registry of the sessions, by address.    *)
(* Its methods hold m.mu from their first statement to their return.       *)
(***************************************************************************)
\* A method of Management returns to its caller and its deferred
\* m.mu.Unlock() runs.
ManagementReturn(p, op, e, conn) ==
    /\ pc' = [pc EXCEPT ![p] = "idle"]
    /\ result' = Result(p, op, e, NoMsg, conn, locals[p].sent)
    /\ locals' = [locals EXCEPT ![p] = NoLocals]
    /\ mgmtMu' = 0

\* An entry that is of use whatever its session's state.
isPresent(s) == s # 0

\* Lines 423-430: the entry found is of use if its session is connected
\* (conn.connected, read without conn.mu).
isLive(s) == s # 0 /\ connected[s]

\* Connect without the delete of line 426: the entry that is not live stays
\* while the session is created.
ManagementConnectKeeping(c, addr) ==
    /\ ~panicked
    /\ pc[c] = "idle"
    /\ calls > 0
    /\ mgmtMu = 0
    /\ calls' = calls - 1
    /\ IF isLive(connections[addr])
       THEN /\ ManagementReturn(c, "Management.Connect", "none", connections[addr])
            /\ UNCHANGED connections
       ELSE /\ \E s \in Sessions : ~created[s]
            /\ UNCHANGED connections
            /\ mgmtMu' = c
            /\ locals' = [locals EXCEPT ![c].mgmt = "Connect", ![c].addr = addr]
            /\ Goto(c, "mgmtConnectNew")
    /\ UNCHANGED <<codecVars, connVars, tunnelVars, mgmtDone, wake, panicked, toDeliver, nAlloc, nOk, lastTx>>

\* Connect, lines 419-431: under m.mu, a live entry is returned; an entry that
\* is not live is deleted, and the method goes on to create a session.
ManagementConnect(c, addr) ==
    /\ ~panicked
    /\ pc[c] = "idle"
    /\ calls > 0
    /\ mgmtMu = 0
    /\ calls' = calls - 1
    /\ IF isLive(connections[addr])
       THEN /\ ManagementReturn(c, "Management.Connect", "none", connections[addr])
            /\ UNCHANGED connections
       ELSE /\ \E s \in Sessions : ~created[s]
            /\ connections' = [connections EXCEPT ![addr] = 0]
            /\ mgmtMu' = c
            /\ locals' = [locals EXCEPT ![c].mgmt = "Connect", ![c].addr = addr]
            /\ Goto(c, "mgmtConnectNew")
    /\ UNCHANGED <<codecVars, connVars, tunnelVars, mgmtDone, wake, panicked, toDeliver, nAlloc, nOk, lastTx>>

\* Connect, line 433: the call of NewP2PConnection(m.tunnel, addr).
ManagementConnectNew(c) ==
    /\ ~panicked
    /\ pc[c] = "mgmtConnectNew"
    /\ newP2PConnection(c, locals[c].addr)
    /\ UNCHANGED <<codecVars, mgmtVars, result, connected, inboundClosed, done, wait, tunnelVars,
                   wake, runVars>>

\* Connect, lines 434-441: NewP2PConnection has returned; an error is passed
\* on, a session is stored under addr and returned.
ManagementConnectReturn(c) ==
    /\ ~panicked
    /\ pc[c] = "mgmtConnectRet"
    /\ IF locals[c].err # "none"
       THEN /\ ManagementReturn(c, "Management.Connect", locals[c].err, 0)
            /\ UNCHANGED connections
       ELSE /\ connections' = [connections EXCEPT ![locals[c].addr] = locals[c].conn]
            /\ ManagementReturn(c, "Management.Connect", "none", locals[c].conn)
    /\ UNCHANGED <<codecVars, connVars, tunnelVars, mgmtDone, wake, runVars>>

\* Disconnect, lines 446-452: under m.mu, no entry is an error.
ManagementDisconnect(c, addr) ==
    /\ ~panicked
    /\ pc[c] = "idle"
    /\ calls > 0
    /\ mgmtMu = 0
    /\ calls' = calls - 1
    /\ IF connections[addr] = 0
       THEN ManagementReturn(c, "Management.Disconnect", ErrNotFound, 0)
       ELSE /\ mgmtMu' = c
            /\ locals' = [locals EXCEPT ![c].mgmt = "Disconnect", ![c].addr = addr,
                                        ![c].conn = connections[addr]]
            /\ Goto(c, "mgmtCall")
    /\ UNCHANGED <<codecVars, connVars, tunnelVars, connections, mgmtDone, wake, panicked,
                   toDeliver, nAlloc, nOk, lastTx>>

\* Disconnect, line 454, and Close, line 413: the call of conn.Disconnect().
ManagementCallDisconnect(c) ==
    /\ ~panicked
    /\ pc[c] = "mgmtCall"
    /\ disconnectEntry(c, locals[c].conn)
    /\ UNCHANGED <<codecVars, connVars, tunnelVars, mgmtVars, wake, runVars>>

\* Disconnect, lines 455-460: the error of conn.Disconnect() is passed on;
\* without an error the entry is deleted.
ManagementDisconnectReturn(c) ==
    /\ ~panicked
    /\ pc[c] = "mgmtDisconnectRet"
    /\ IF locals[c].err # "none"
       THEN /\ ManagementReturn(c, "Management.Disconnect", locals[c].err, 0)
            /\ UNCHANGED connections
       ELSE /\ connections' = [connections EXCEPT ![locals[c].addr] = 0]
            /\ ManagementReturn(c, "Management.Disconnect", "none", 0)
    /\ UNCHANGED <<codecVars, connVars, tunnelVars, mgmtDone, wake, runVars>>

\* GetConnection, lines 465-475: the entry of addr, nil (0) if there is none.
GetConnection(c, addr) ==
    /\ ~panicked
    /\ pc[c] = "idle"
    /\ calls > 0
    /\ mgmtMu = 0
    /\ calls' = calls - 1
    /\ ManagementReturn(c, "GetConnection", "none", connections[addr])
    /\ UNCHANGED <<codecVars, connVars, tunnelVars, connections, mgmtDone, wake, panicked,
                   toDeliver, nAlloc, nOk, lastTx>>

\* Close, line 406: close(m.done); closing a closed channel panics.
ManagementClose(c) ==
    /\ ~panicked
    /\ pc[c] = "idle"
    /\ calls > 0
    /\ calls' = calls - 1
    /\ IF mgmtDone
       THEN panicked' = TRUE /\ UNCHANGED mgmtDone
       ELSE mgmtDone' = TRUE /\ UNCHANGED panicked
    /\ locals' = [locals EXCEPT ![c].mgmt = "Close"]
    /\ Goto(c, "mgmtCloseLock")
    /\ UNCHANGED <<codecVars, connVars, tunnelVars, connections, mgmtMu, wake, toDeliver, nAlloc,
                   nOk, lastTx>>

\* Close, lines 409-412: m.mu is taken; the loop is to visit every entry.
ManagementCloseLock(c) ==
    /\ ~panicked
    /\ pc[c] = "mgmtCloseLock"
    /\ mgmtMu = 0
    /\ mgmtMu' = c
    /\ locals' = [locals EXCEPT
                     ![c].todo = {connections[a] : a \in DeviceAddrs} \ {0}]
    /\ Goto(c, "mgmtCloseNext")
    /\ UNCHANGED <<codecVars, connVars, tunnelVars, connections, mgmtDone, wake, runVars>>

\* Close, lines 412-415: the loop takes the entries in any order, the value
\* of conn.Disconnect() is dropped; after the last one Close returns.
ManagementCloseNext(c) ==
    /\ ~panicked
    /\ pc[c] = "mgmtCloseNext"
    /\ IF locals[c].todo = {}
       THEN ManagementReturn(c, "Management.Close", "none", 0)
       ELSE /\ \E s \in locals[c].todo :
                  locals' = [locals EXCEPT ![c].todo = @ \ {s}, ![c].conn = s]
            /\ Goto(c, "mgmtCall")
            /\ UNCHANGED mgmtMu
    /\ UNCHANGED <<codecVars, connVars, tunnelVars, connections, mgmtDone, wake, runVars>>

(***************************************************************************)
(* The tunnel: it delivers a message on its inbound channel, or closes it. *)
(***************************************************************************)
Deliver(msg) ==
    /\ ~panicked
    /\ toDeliver > 0
    /\ ~tunnelClosed
    /\ Len(tunnelInbound) < MaxTunnelQueue
    /\ tunnelInbound' = Append(tunnelInbound, msg)
    /\ toDeliver' = toDeliver - 1
    /\ UNCHANGED <<codecVars, mgmtVars, connVars, tunnelClosed, procVars, panicked, calls, nAlloc, nOk, lastTx>>

CloseTunnel ==
    /\ ~panicked
    /\ ~tunnelClosed
    /\ tunnelClosed' = TRUE
    /\ UNCHANGED <<codecVars, mgmtVars, connVars, tunnelInbound, procVars, runVars>>

(***************************************************************************)
(* Initial states.                                                         *)
(***************************************************************************)
\* The tunnel is open, the clients are idle; they may make nCalls calls and
\* the tunnel may deliver nDeliver messages.
InitRegistry(nCalls, nDeliver, registry) ==
    /\ tunnelInbound = <<>>
    /\ tunnelClosed = FALSE
    /\ locals = [p \in Procs |-> IF IsDemux(p) THEN ServeLocals(0 - p) ELSE NoLocals]
    /\ wake = [p \in Procs |-> 0]
    /\ result = NoResult
    /\ panicked = FALSE
    /\ toDeliver = nDeliver
    /\ calls = nCalls
    /\ nAlloc = 0
    /\ nOk = 0
    /\ lastTx = [s \in Sessions |-> 0 - 1]
    /\ connections = registry
    /\ mgmtMu = 0
    /\ mgmtDone = FALSE

\* NewManagement, lines 395-401: the registry is empty.
InitProgram(nCalls, nDeliver) ==
    InitRegistry(nCalls, nDeliver, [a \in DeviceAddrs |-> 0])

\* No codec runs beside the sessions.
CodecOff ==
    /\ codecPc = "off"
    /\ codecIn = <<>>
    /\ codecWire = <<>>
    /\ codecOut = <<>>

InitRun(nCalls, nDeliver) == InitProgram(nCalls, nDeliver) /\ CodecOff

\* The fields of a session as NewP2PConnection initialises them, lines 32-40;
\* established says which sessions have completed the handshake and run serve.
InitSessions(established) ==
    /\ created = [s \in Sessions |-> s \in established]
    /\ targetAddr = [s \in Sessions |-> IF s \in established THEN "devA" ELSE "none"]
    /\ seqNumber = [s \in Sessions |-> InitialSeqNumber]
    /\ lastSend = [s \in Sessions |-> Age(Second)]
    /\ connected = [s \in Sessions |-> s \in established]
    /\ inbound = [s \in Sessions |-> <<>>]
    /\ inboundClosed = [s \in Sessions |-> FALSE]
    /\ done = [s \in Sessions |-> FALSE]
    /\ wait = [s \in Sessions |-> IF s \in established THEN 1 ELSE 0]
    /\ pc = [p \in Procs |-> IF IsDemux(p)
                             THEN (IF (0 - p) \in established THEN "serve" ELSE "unborn")
                             ELSE "idle"]

(***************************************************************************)
(* Spec: the acknowledgement phase.  Clients send concurrently on an       *)
(* established session; the device acknowledges, with any sequence number. *)
(***************************************************************************)
Requests(s) == {DataReq(targetAddr[s], MemoryRead)}

AckMsgs == {AckInd("devA", LocalAddr, 0), AckInd("devA", LocalAddr, 1)}

SendStep(c) ==
    \/ \E s \in Sessions : \E r \in Requests(s) : Send(c, s, r, MemoryResponse)
    \/ SendNextSeqNum(c)
    \/ applyRateLimit(c)
    \/ applyRateLimitWake(c)
    \/ SendTx(c)
    \/ AwaitAckTimeout(c)
    \/ AwaitAckRecv(c)
    \/ AwaitRespTimeout(c)

Init == InitSessions({1}) /\ InitRun(MaxCalls, MaxDeliver)

Next ==
    \/ \E c \in Clients : SendStep(c)
    \/ \E d \in Demuxes : ServeRecv(d)
    \/ \E msg \in AckMsgs : Deliver(msg)
    \/ Tick

Spec == Init /\ [][Next]_vars

(***************************************************************************)
(* SpecResp: the response phase.  The device acknowledges and answers;     *)
(* other traffic arrives in between.                                       *)
(***************************************************************************)
ExpectedCmds == {MemoryResponse, MemoryRead}

RespMsgs ==
    {AckInd("devA", LocalAddr, 0),
     AppInd("devA", LocalAddr, 3, MemoryResponse),
     AppInd("devB", LocalAddr, 5, MemoryRead)}

RespStep(c) ==
    \/ \E s \in Sessions : \E r \in Requests(s) : \E e \in ExpectedCmds : Send(c, s, r, e)
    \/ SendNextSeqNum(c)
    \/ applyRateLimit(c)
    \/ applyRateLimitWake(c)
    \/ SendTx(c)
    \/ AwaitAckTimeout(c)
    \/ AwaitAckRecv(c)
    \/ AwaitRespTimeout(c)
    \/ AwaitRespRecv(c)
    \/ SendAckTx(c)

InitResp == InitSessions({1}) /\ InitRun(RespCalls, RespDeliver)

NextResp ==
    \/ \E c \in Clients : RespStep(c)
    \/ \E d \in Demuxes : ServeRecv(d)
    \/ \E msg \in RespMsgs : Deliver(msg)
    \/ Tick

SpecResp == InitResp /\ [][NextResp]_vars

(***************************************************************************)
(* SpecClose: the end of a session by Disconnect.  Clients send and        *)
(* disconnect concurrently; the device acknowledges and answers.           *)
(***************************************************************************)
CloseMsgs ==
    {AckInd("devA", LocalAddr, 0),
     AppInd("devA", LocalAddr, 3, MemoryResponse)}

CloseStep(c) ==
    \/ \E s \in Sessions : \E r \in Requests(s) : Send(c, s, r, MemoryResponse)
    \/ SendNextSeqNum(c)
    \/ SendTx(c)
    \/ AwaitAckTimeout(c)
    \/ AwaitAckDone(c)
    \/ AwaitAckRecv(c)
    \/ AwaitRespTimeout(c)
    \/ AwaitRespDone(c)
    \/ AwaitRespRecv(c)
    \/ \E s \in Sessions : DisconnectCall(c, s)

DisconnectStep(p) ==
    \/ applyRateLimit(p)
    \/ applyRateLimitWake(p)
    \/ DisconnectTx(p)
    \/ DisconnectMark(p)
    \/ DisconnectSelect(p)
    \/ DisconnectClose(p)
    \/ DisconnectWait(p)

InitClose == InitSessions({1}) /\ InitRun(CloseCalls, CloseDeliver)

NextClose ==
    \/ \E c \in Clients : CloseStep(c)
    \/ \E c \in Clients : DisconnectStep(c)
    \/ \E d \in Demuxes : ServeDone(d) \/ ServeRecv(d) \/ ServeExit(d)
    \/ \E msg \in CloseMsgs : Deliver(msg)
    \/ Tick

SpecClose == InitClose /\ [][NextClose]_vars

(***************************************************************************)
(* SpecPeer: the end of a session by the device.  The device acknowledges  *)
(* or disconnects while clients send and disconnect.                       *)
(***************************************************************************)
PeerMsgs ==
    {AckInd("devA", LocalAddr, 0),
     DiscInd(LocalAddr, "devA")}

PeerStep(c) ==
    \/ \E s \in Sessions : \E r \in Requests(s) : Send(c, s, r, MemoryResponse)
    \/ SendNextSeqNum(c)
    \/ SendTx(c)
    \/ AwaitAckTimeout(c)
    \/ AwaitAckDone(c)
    \/ AwaitAckRecv(c)
    \/ AwaitRespTimeout(c)
    \/ AwaitRespDone(c)
    \/ \E s \in Sessions : DisconnectCall(c, s)

DemuxStep(d) ==
    \/ ServeDone(d)
    \/ ServeRecv(d)
    \/ HandleDisconnectCall(d)
    \/ HandleDisconnectSelect(d)
    \/ HandleDisconnectClose(d)
    \/ ServeExit(d)

InitPeer == InitSessions({1}) /\ InitRun(PeerCalls, PeerDeliver)

NextPeer ==
    \/ \E c \in Clients : PeerStep(c)
    \/ \E p \in Procs : DisconnectStep(p)
    \/ \E d \in Demuxes : DemuxStep(d)
    \/ \E msg \in PeerMsgs : Deliver(msg)
    \/ Tick

SpecPeer == InitPeer /\ [][NextPeer]_vars

(***************************************************************************)
(* SpecSeq: the sequence numbers of a fresh session over MaxSends          *)
(* successive calls of Send, one after the other, by any of the clients.   *)
(* Some calls fail: the device acknowledges and answers the second request *)
(* only, and a caller may pass a request that is no AppData.               *)
(***************************************************************************)
\* No call is in progress.
Quiet == \A b \in Clients : pc[b] = "idle"

SeqRequests(s) == Requests(s) \cup {NewDiscReq(SourceAddr, targetAddr[s])}

SeqMsgs ==
    {AckInd("devA", LocalAddr, 1),
     AppInd("devA", LocalAddr, 3, MemoryResponse)}

SeqStep(c) ==
    \/ Quiet /\ \E s \in Sessions : \E r \in SeqRequests(s) : Send(c, s, r, MemoryResponse)
    \/ SendNextSeqNum(c)
    \/ applyRateLimit(c)
    \/ applyRateLimitWake(c)
    \/ SendTx(c)
    \/ AwaitAckTimeout(c)
    \/ AwaitAckRecv(c)
    \/ AwaitRespTimeout(c)
    \/ AwaitRespRecv(c)
    \/ SendAckTx(c)

InitSeq == InitSessions({1}) /\ InitRun(MaxSends, SeqDeliver)

NextSeq ==
    \/ \E c \in Clients : SeqStep(c)
    \/ \E d \in Demuxes : ServeRecv(d)
    \/ \E msg \in SeqMsgs : Deliver(msg)
    \/ Tick

SpecSeq == InitSeq /\ [][NextSeq]_vars

(***************************************************************************)
(* SpecConn: the handshake.  Clients create sessions; the tunnel confirms, *)
(* delivers other messages, or closes.                                     *)
(***************************************************************************)
ConnMsgs ==
    {ConnCon(LocalAddr, "devA"),
     Msg("LDataInd", "devA", LocalAddr, "ControlConn", FALSE, 0, Connect),
     Msg("LDataCon", LocalAddr, "devA", "AppData", TRUE, 0, MemoryRead)}

ConnStep(c) ==
    \/ NewP2PConnection(c, "devA")
    \/ RequestConnTx(c)
    \/ RequestConnTimeout(c)
    \/ RequestConnRecv(c)

ConnDemuxStep(d) ==
    \/ ServeRecv(d)
    \/ TunnelClosedSelect(d)
    \/ TunnelClosedClose(d)
    \/ ServeExit(d)

InitConn == InitSessions({}) /\ InitRun(ConnCalls, ConnDeliver)

NextConn ==
    \/ \E c \in Clients : ConnStep(c)
    \/ \E d \in Demuxes : ConnDemuxStep(d)
    \/ \E msg \in ConnMsgs : Deliver(msg)
    \/ CloseTunnel

SpecConn == InitConn /\ [][NextConn]_vars

(***************************************************************************)
(* SpecTunnel: the end of a session by the closure of the tunnel.  Clients *)
(* send on an established session, one call after the other; the device    *)
(* acknowledges; the tunnel closes its inbound channel at any moment.  The *)
(* demux goroutine, once runnable, is eventually run.                      *)
(***************************************************************************)
TunnelStep(c) ==
    \/ Quiet /\ \E s \in Sessions : \E r \in Requests(s) : Send(c, s, r, MemoryResponse)
    \/ SendNextSeqNum(c)
    \/ applyRateLimit(c)
    \/ applyRateLimitWake(c)
    \/ SendTx(c)
    \/ AwaitAckTimeout(c)
    \/ AwaitAckDone(c)
    \/ AwaitAckRecv(c)
    \/ AwaitRespTimeout(c)
    \/ AwaitRespDone(c)

InitTunnel == InitSessions({1}) /\ InitRun(TunnelCalls, TunnelDeliver)

NextTunnel ==
    \/ \E c \in Clients : TunnelStep(c)
    \/ \E d \in Demuxes : ConnDemuxStep(d)
    \/ \E msg \in AckMsgs : Deliver(msg)
    \/ CloseTunnel
    \/ Tick

SpecTunnel ==
    /\ InitTunnel
    /\ [][NextTunnel]_vars
    /\ \A d \in Demuxes : WF_vars(ConnDemuxStep(d))

(***************************************************************************)
(* SpecMgmt: the registry.  Clients connect, disconnect, look up and close *)
(* through the Management; the tunnel confirms the handshakes.             *)
(***************************************************************************)
MgmtAddrs == DeviceAddrs

MgmtMsgs == {ConnCon(LocalAddr, "devA")}

MgmtStep(c) ==
    \/ \E addr \in MgmtAddrs : ManagementConnect(c, addr)
    \/ ManagementConnectNew(c)
    \/ RequestConnTx(c)
    \/ RequestConnTimeout(c)
    \/ RequestConnRecv(c)
    \/ ManagementConnectReturn(c)
    \/ \E addr \in MgmtAddrs : ManagementDisconnect(c, addr)
    \/ ManagementCallDisconnect(c)
    \/ ManagementDisconnectReturn(c)
    \/ \E addr \in MgmtAddrs : GetConnection(c, addr)
    \/ ManagementClose(c)
    \/ ManagementCloseLock(c)
    \/ ManagementCloseNext(c)
    \/ applyRateLimit(c)
    \/ DisconnectTx(c)
    \/ DisconnectMark(c)
    \/ DisconnectSelect(c)
    \/ DisconnectClose(c)
    \/ DisconnectWait(c)

MgmtDemuxStep(d) ==
    \/ ServeDone(d)
    \/ ServeRecv(d)
    \/ ServeExit(d)

InitMgmt == InitSessions({}) /\ InitRun(MgmtCalls, MgmtDeliver)

NextMgmt ==
    \/ \E c \in Clients : MgmtStep(c)
    \/ \E d \in Demuxes : MgmtDemuxStep(d)
    \/ \E msg \in MgmtMsgs : Deliver(msg)

SpecMgmt == InitMgmt /\ [][NextMgmt]_vars

(***************************************************************************)
(* SpecShared: the registry whose sessions are in use.  Besides calling    *)
(* the Management, clients disconnect the sessions it gave them, and the   *)
(* tunnel closes at any moment.                                            *)
(***************************************************************************)
SharedStep(c) ==
    \/ MgmtStep(c)
    \/ \E s \in Sessions : DisconnectCall(c, s)

SharedDemuxStep(d) ==
    \/ MgmtDemuxStep(d)
    \/ TunnelClosedSelect(d)
    \/ TunnelClosedClose(d)

NextShared ==
    \/ \E c \in Clients : SharedStep(c)
    \/ \E d \in Demuxes : SharedDemuxStep(d)
    \/ \E msg \in MgmtMsgs : Deliver(msg)
    \/ CloseTunnel

SpecShared == InitMgmt /\ [][NextShared]_vars

(***************************************************************************)
(* SpecRate: the rate limiter.  Clients send concurrently on an            *)
(* established session; the device is silent, and every call ends with the *)
(* timeout of its ACK.                                                     *)
(***************************************************************************)
RateStep(c) ==
    \/ \E s \in Sessions : \E r \in Requests(s) : Send(c, s, r, MemoryResponse)
    \/ SendNextSeqNum(c)
    \/ applyRateLimit(c)
    \/ applyRateLimitWake(c)
    \/ SendTx(c)
    \/ AwaitAckTimeout(c)

InitRate == InitSessions({1}) /\ InitRun(RateCalls, 0)

NextRate ==
    \/ \E c \in Clients : RateStep(c)
    \/ Tick

SpecRate == InitRate /\ [][NextRate]_vars

(***************************************************************************)
(* SpecQueue: the inbound queue of a session.  The tunnel delivers more    *)
(* messages than conn.inbound holds, in turn an acknowledgement and a      *)
(* response, which the device numbers one after the other (modulo 16); a   *)
(* client sends, and reads the queue, at any moment.                       *)
(***************************************************************************)
\* The number of the next message of the device.
QueueStamp == (QueueDeliver - toDeliver) % SeqModulus

QueueMsgs ==
    IF QueueStamp % 2 = 0
    THEN {AckInd("devA", LocalAddr, QueueStamp)}
    ELSE {AppInd("devA", LocalAddr, QueueStamp, MemoryResponse)}

InitQueue == InitSessions({1}) /\ InitRun(QueueCalls, QueueDeliver)

NextQueue ==
    \/ \E c \in Clients : RespStep(c)
    \/ \E d \in Demuxes : ServeRecv(d)
    \/ \E msg \in QueueMsgs : Deliver(msg)
    \/ Tick

SpecQueue == InitQueue /\ [][NextQueue]_vars

(***************************************************************************)
(* SpecLive: the calls that wait.  Two callers create sessions and send on *)
(* an established one, at the same time; the tunnel delivers a             *)
(* confirmation or an acknowledgement, or nothing, and no response.  A     *)
(* goroutine                                                               *)
(* that can run is eventually run, the tunnel's Send returns, time passes, *)
(* and a timer whose select is waiting eventually fires and is taken.      *)
(***************************************************************************)
LiveMsgs ==
    {ConnCon(LocalAddr, "devA"),
     AckInd("devA", LocalAddr, 0)}

\* The steps of a call that wait for no message: those that wait for
\* nothing, and the timers of the three waits.
LiveRun(c) ==
    \/ SendNextSeqNum(c)
    \/ applyRateLimit(c)
    \/ applyRateLimitWake(c)
    \/ SendTx(c)
    \/ RequestConnTx(c)
    \/ AwaitAckTimeout(c)
    \/ AwaitRespTimeout(c)
    \/ RequestConnTimeout(c)

LiveStep(c) ==
    \/ \E s \in Sessions : \E r \in Requests(s) : Send(c, s, r, MemoryResponse)
    \/ NewP2PConnection(c, "devA")
    \/ LiveRun(c)
    \/ AwaitAckRecv(c)
    \/ RequestConnRecv(c)

InitLive == InitSessions({1}) /\ InitRun(LiveCalls, LiveDeliver)

\* The goroutines that call in SpecLive.
LiveClients == {1, 2}

NextLive ==
    \/ \E c \in LiveClients : LiveStep(c)
    \/ \E d \in Demuxes : ServeRecv(d)
    \/ \E msg \in LiveMsgs : Deliver(msg)
    \/ Tick

SpecLive ==
    /\ InitLive
    /\ [][NextLive]_vars
    /\ WF_vars(Tick)
    /\ \A c \in LiveClients : WF_vars(LiveRun(c))

(***************************************************************************)
(* The transport unit codec (knx/cemi).  A byte is a number in 0 .. 255, a *)
(* buffer a sequence of bytes; Go's index i is the model's index i + 1.    *)
(***************************************************************************)
Bytes == 0 .. 255

RECURSIVE Pow2(_)
Pow2(n) == IF n = 0 THEN 1 ELSE 2 * Pow2(n - 1)

\* x >> n and x << n
Shr(x, n) == x \div Pow2(n)
Shl(x, n) == x * Pow2(n)

\* x & m and x | m, bit by bit
RECURSIVE BitAnd(_, _)
BitAnd(x, m) ==
    IF x = 0 \/ m = 0 THEN 0
    ELSE (x % 2) * (m % 2) + 2 * BitAnd(x \div 2, m \div 2)

RECURSIVE BitOr(_, _)
BitOr(x, m) ==
    IF x = 0 THEN m
    ELSE IF m = 0 THEN x
    ELSE Max(x % 2, m % 2) + 2 * BitOr(x \div 2, m \div 2)

\* byte(x), uint8(x)
Byte(x) == x % 256

\* make([]byte, n)
Zeros(n) == [i \in 1 .. n |-> 0]

\* copy(buffer[off:], src): as many bytes as both hold
Copy(buffer, off, src) ==
    [i \in 1 .. Len(buffer) |->
        IF i > off /\ i - off <= Len(src) THEN src[i - off] ELSE buffer[i]]

\* data[off:], for off <= len(data)
From(data, off) == SubSeq(data, off + 1, Len(data))

\* The APCI values of part_000, lines 34-121.
StandardAPCIs ==
    {0, 64, 128, 192, 256, 320, 384, 448, 512, 576, 640, 768, 832, 896}
ExtendedAPCIs ==
    {456, 457, 458, 460, 461, 462, 463, 464, 465, 466, 467, 468, 469, 470,
     507, 508, 509, 510}
UserMessageAPCIs == {704, 705, 706, 708, 709, 710, 711, 712, 713}
EscapeAPCIs ==
    {960, 961, 962, 963, 968, 969, 970, 973, 974, 975, 976, 977, 978, 979,
     980, 981, 982, 983, 984, 985, 986, 987, 988, 989, 990, 992, 993, 994,
     995, 996, 997, 998, 999, 1000, 1001, 1002, 1003, 1004, 1005, 1006, 1008}
SupportedAPCIs ==
    StandardAPCIs \cup ExtendedAPCIs \cup UserMessageAPCIs \cup EscapeAPCIs

\* (apci >> 6) < 3
IsGroupCommand(apci) == Shr(apci, 6) < 3

\* apci != UserMemoryRead, without the exception
IsStandardCommandNoException(apci) ==
    BitAnd(apci, 63) = 0 /\ Shr(apci, 6) < 15

\* apci != UserMemoryRead && (apci&0x3F) == 0 && (apci>>6) < 15
IsStandardCommand(apci) ==
    apci # UserMemoryRead /\ BitAnd(apci, 63) = 0 /\ Shr(apci, 6) < 15

\* A transport unit: kind is the Go type of the value (AppData, ControlData,
\* ControlConn, ControlDisc, ControlAck, ControlNak); data is used by AppData.
Unit(kind, numbered, sq, cmd, data) ==
    [kind |-> kind, numbered |-> numbered, seq |-> sq, command |-> cmd,
     data |-> data]
AppData(numbered, sq, cmd, data) == Unit("AppData", numbered, sq, cmd, data)
ControlData(numbered, sq, cmd) == Unit("ControlData", numbered, sq, cmd, <<>>)
NoUnit == Unit("nil", FALSE, 0, 0, <<>>)

TConnect == Unit("ControlConn", FALSE, 0, Connect, <<>>)
TDisconnect == Unit("ControlDisc", FALSE, 0, Disconnect, <<>>)
TAck(seqNum) == Unit("ControlAck", TRUE, seqNum, Ack, <<>>)
TNak(seqNum) == Unit("ControlNak", TRUE, seqNum, Nak, <<>>)

\* Lines 150-156 and 163-169: the length of the data, between 1 and 255.
ClampedLength(data) ==
    IF Len(data) > MaxDataLength THEN MaxDataLength
    ELSE IF Len(data) < 1 THEN 1
    ELSE Len(data)

\* AppData.Size
AppDataSize(app) ==
    (IF IsStandardCommand(app.command) THEN 2 ELSE 3) + ClampedLength(app.data)

\* Line 178 and ControlData.Pack, line 219: the flag and the number, written
\* for a numbered unit only.
NumberedBits(unit) ==
    IF unit.numbered THEN BitOr(Shl(1, 6), Shl(BitAnd(unit.seq, 15), 2)) ELSE 0

\* The same, with the number written for every unit.
NumberedBitsAlways(unit) ==
    BitOr(IF unit.numbered THEN Shl(1, 6) ELSE 0, Shl(BitAnd(unit.seq, 15), 2))

\* AppData.Pack into the zeroed buffer of Size() bytes.
AppDataPack(app) ==
    LET dataLength == ClampedLength(app.data)
                      + (IF IsStandardCommand(app.command) THEN 0 ELSE 1)
        b0 == [Zeros(AppDataSize(app)) EXCEPT ![1] = Byte(dataLength)]
        b1 == [b0 EXCEPT ![2] = BitOr(NumberedBits(app),
                                      BitAnd(Byte(Shr(app.command, 8)), 3))]
    IN  IF IsStandardCommand(app.command)
        THEN LET b2 == Copy(b1, 2, app.data)
             IN  [b2 EXCEPT ![3] = BitOr(BitAnd(b2[3], 63),
                                         Byte(Shl(BitAnd(Shr(app.command, 6), 3), 6)))]
        ELSE Copy([b1 EXCEPT ![3] = Byte(BitAnd(app.command, 255))], 3, app.data)

\* ControlData.Size and ControlData.Pack
ControlDataSize == 2
ControlDataPack(control) ==
    <<0, BitOr(BitOr(Shl(1, 7), BitAnd(control.command, 3)), NumberedBits(control))>>

\* What unpackTransportUnit returns: the bytes read, the error, and *unit.
Unpacked(n, e, unit) == [n |-> n, err |-> e, unit |-> unit]
ErrUnexpectedEOF == "unexpected EOF"

\* The guard of the length as the bytes needed would have it.
LengthGuardNeeded(data, dataLength) == Len(data) < 3 \/ Len(data) < dataLength + 2

\* Line 262, the guard of the length as the code has it.
LengthGuard(data, dataLength) == Len(data) < 3 \/ dataLength + 2 < Len(data)

\* Lines 271-273: the prefix of the command, and whether it takes a third byte.
Prefix(data) == BitOr(Shl(BitAnd(data[2], 3), 2), Shr(data[3], 6))
IsExtendedPrefix(p) == p = PrefixUserMessage \/ p = PrefixEscape

\* Lines 235-258: the control unit of a second byte with bit 7 set.
unpackControl(data) ==
    LET numbered == BitAnd(data[2], Shl(1, 6)) = Shl(1, 6)
        seqNum == BitAnd(Shr(data[2], 2), 15)
        command == BitAnd(data[2], 3)
    IN  Unpacked(2, "none",
            CASE command = Connect -> TConnect
              [] command = Disconnect -> TDisconnect
              [] command = Ack -> TAck(seqNum)
              [] command = Nak -> TNak(seqNum)
              [] OTHER -> ControlData(numbered, seqNum, command))

\* Lines 260-288: the data unit.  make([]byte, n) panics for a negative n,
\* and app.Data[0] for an empty app.Data.
unpackApp(data) ==
    LET dataLength == data[1]
        numbered == BitAnd(data[2], Shl(1, 6)) = Shl(1, 6)
        seqNum == BitAnd(Shr(data[2], 2), 15)
        p == Prefix(data)
    IN  IF LengthGuard(data, dataLength)
        THEN Unpacked(0, ErrUnexpectedEOF, NoUnit)
        ELSE IF IsExtendedPrefix(p)
        THEN IF dataLength < 1
             THEN Unpacked(0, "panic", NoUnit)
             ELSE Unpacked(dataLength + 2, "none",
                      AppData(numbered, seqNum, BitOr(Shl(p, 6), data[3]),
                              Copy(Zeros(dataLength - 1), 0, From(data, 3))))
        ELSE IF dataLength < 1
             THEN Unpacked(0, "panic", NoUnit)
             ELSE LET d == Copy(Zeros(dataLength), 0, From(data, 2))
                  IN  Unpacked(dataLength + 2, "none",
                          AppData(numbered, seqNum, Shl(p, 6),
                                  [d EXCEPT ![1] = BitAnd(d[1], 63)]))

unpackTransportUnit(data) ==
    IF Len(data) < 2
    THEN Unpacked(0, ErrUnexpectedEOF, NoUnit)
    ELSE IF BitAnd(data[2], Shl(1, 7)) = Shl(1, 7)
    THEN unpackControl(data)
    ELSE unpackApp(data)

(***************************************************************************)
(* SpecTpdu: a transport unit is packed into a buffer of Size() bytes and  *)
(* the buffer is unpacked; or the bytes arrive cut short, or with a byte   *)
(* behind them, and are unpacked.                                          *)
(***************************************************************************)
\* The payloads: every sequence of at most MaxData of the bytes below, and
\* one of the greatest length the length byte can tell.
DataBytes == {1, 170}

RECURSIVE SeqsUpTo(_, _)
SeqsUpTo(S, n) ==
    IF n = 0 THEN {<<>>}
    ELSE LET shorter == SeqsUpTo(S, n - 1)
         IN  shorter \cup {Append(q, x) : q \in {r \in shorter : Len(r) = n - 1}, x \in S}

Payloads == SeqsUpTo(DataBytes, MaxData) \cup {Zeros(MaxDataLength)}

AppUnits ==
    {AppData(numbered, sq, a, d) :
        numbered \in BOOLEAN, sq \in 0 .. SeqModulus - 1, a \in SupportedAPCIs,
        d \in Payloads}

ControlUnits ==
    {ControlData(numbered, sq, cmd) :
        numbered \in BOOLEAN, sq \in 0 .. SeqModulus - 1,
        cmd \in {Connect, Disconnect, Ack, Nak}}

NotUnpacked == Unpacked(0, "pending", NoUnit)

\* app.Pack(buffer), buffer := make([]byte, app.Size())
PackAppData ==
    /\ codecPc = "input"
    /\ codecIn.kind = "AppData"
    /\ codecWire' = AppDataPack(codecIn)
    /\ codecPc' = "packed"
    /\ UNCHANGED <<connVars, tunnelVars, mgmtVars, procVars, runVars, codecIn, codecOut>>

\* control.Pack(buffer), buffer := make([]byte, control.Size())
PackControlData ==
    /\ codecPc = "input"
    /\ codecIn.kind = "ControlData"
    /\ codecWire' = ControlDataPack(codecIn)
    /\ codecPc' = "packed"
    /\ UNCHANGED <<connVars, tunnelVars, mgmtVars, procVars, runVars, codecIn, codecOut>>

\* The bytes arrive without their last k bytes.
ReceiveCut(k) ==
    /\ codecPc = "packed"
    /\ k <= Len(codecWire)
    /\ codecWire' = SubSeq(codecWire, 1, Len(codecWire) - k)
    /\ codecPc' = "received"
    /\ UNCHANGED <<connVars, tunnelVars, mgmtVars, procVars, runVars, codecIn, codecOut>>

\* The bytes arrive with one more byte behind them.
ReceiveMore ==
    /\ codecPc = "packed"
    /\ codecWire' = Append(codecWire, 0)
    /\ codecPc' = "received"
    /\ UNCHANGED <<connVars, tunnelVars, mgmtVars, procVars, runVars, codecIn, codecOut>>

\* unpackTransportUnit(data, &unit), of the bytes as packed ("unpacked") or
\* as received ("parsed").
UnpackTransportUnit ==
    /\ codecPc \in {"packed", "received"}
    /\ codecOut' = unpackTransportUnit(codecWire)
    /\ codecPc' = IF codecPc = "packed" THEN "unpacked" ELSE "parsed"
    /\ UNCHANGED <<connVars, tunnelVars, mgmtVars, procVars, runVars, codecIn, codecWire>>

InitTpdu ==
    /\ InitSessions({})
    /\ InitProgram(0, 0)
    /\ codecPc = "input"
    /\ codecIn \in AppUnits \cup ControlUnits
    /\ codecWire = <<>>
    /\ codecOut = NotUnpacked

NextTpdu ==
    \/ PackAppData
    \/ PackControlData
    \/ \E k \in 1 .. MaxCut : ReceiveCut(k)
    \/ ReceiveMore
    \/ UnpackTransportUnit

SpecTpdu == InitTpdu /\ [][NextTpdu]_vars

(***************************************************************************)
(* SpecApci: the predicates of a command, and the encoding Pack chooses,   *)
(* for every command ten bits can tell.                                    *)
(***************************************************************************)
APCIs == 0 .. Pow2(ApciBits) - 1

\* apci.IsStandardCommand(), apci.IsGroupCommand()
ClassifyCommand ==
    /\ codecPc = "input"
    /\ codecOut' = [standard |-> IsStandardCommand(codecIn.command),
                    group |-> IsGroupCommand(codecIn.command)]
    /\ codecPc' = "classified"
    /\ UNCHANGED <<connVars, tunnelVars, mgmtVars, procVars, runVars, codecIn, codecWire>>

InitApci ==
    /\ InitSessions({})
    /\ InitProgram(0, 0)
    /\ codecPc = "input"
    /\ codecIn \in {AppData(FALSE, 0, a, d) : a \in APCIs, d \in Payloads}
    /\ codecWire = <<>>
    /\ codecOut = NotUnpacked

NextApci ==
    \/ ClassifyCommand
    \/ PackAppData

SpecApci == InitApci /\ [][NextApci]_vars

(***************************************************************************)
(* The description information blocks (knx/knxnet).  A DIB value has the   *)
(* fields of its Go struct: Type; for the blocks of fixed size the other   *)
(* fields as the bytes they are packed to (body); for SupportedServices    *)
(* and SecuredServices the Families (items, each <<Type, Version>>); for   *)
(* KNXAddrs the addresses (items); for TunnellingInfo APDUSize (word) and  *)
(* the Slots (items, each <<Addr, Status>>); for ManufacturerData ID       *)
(* (word) and Data (body).                                                 *)
(***************************************************************************)
Dib(kind, ty, word, items, body) ==
    [kind |-> kind, type |-> ty, word |-> word, items |-> items, body |-> body]

FixedKinds == {"DeviceInfo", "IPConfig", "IPCurrentConfig", "ExtendedDeviceInfo"}
FamilyKinds == {"SupportedServices", "SecuredServices"}
DibKinds == FixedKinds \cup FamilyKinds \cup {"KNXAddrs", "TunnellingInfo", "ManufacturerData"}

\* The zero value of the struct.
ZeroDib(kind) == Dib(kind, 0, 0, <<>>, <<>>)

\* The switch on the type byte, part_002 lines 655-739.
KindOfType(ty) ==
    CASE ty = DescriptionTypeDeviceInfo -> "DeviceInfo"
      [] ty = DescriptionTypeSupportedServiceFamilies -> "SupportedServices"
      [] ty = DescriptionTypeIPConfig -> "IPConfig"
      [] ty = DescriptionTypeIPCurrentConfig -> "IPCurrentConfig"
      [] ty = DescriptionTypeKNXAddresses -> "KNXAddrs"
      [] ty = DescriptionTypeSecuredServiceFamilies -> "SecuredServices"
      [] ty = DescriptionTypeTunnellingInfo -> "TunnellingInfo"
      [] ty = DescriptionTypeExtendedDeviceInfo -> "ExtendedDeviceInfo"
      [] ty = DescriptionTypeManufacturerData -> "ManufacturerData"
      [] OTHER -> "unknown"

\* util.PackSome and util.UnpackSome of a uint16: two bytes, the high one first.
PackU16(x) == <<Shr(x, 8), x % 256>>
UnpackU16(data, off) == Shl(data[off + 1], 8) + data[off + 2]

\* The bytes of one item of a list, and its size.
ItemSize(kind) == IF kind = "TunnellingInfo" THEN TunnellingSlotSize ELSE ServiceFamilySize
PackItem(kind, item) ==
    CASE kind \in FamilyKinds -> <<item[1], item[2]>>
      [] kind = "KNXAddrs" -> PackU16(item)
      [] kind = "TunnellingInfo" -> PackU16(item[1]) \o PackU16(item[2])
UnpackItem(kind, data, off) ==
    CASE kind \in FamilyKinds -> <<data[off + 1], data[off + 2]>>
      [] kind = "KNXAddrs" -> UnpackU16(data, off)
      [] kind = "TunnellingInfo" -> <<UnpackU16(data, off), UnpackU16(data, off + 2)>>

RECURSIVE PackItems(_, _)
PackItems(kind, items) ==
    IF items = <<>> THEN <<>>
    ELSE PackItem(kind, Head(items)) \o PackItems(kind, Tail(items))

\* The bytes before the items, or before Data: length and type, and the
\* 16-bit field of TunnellingInfo and ManufacturerData.
HeaderSize(kind) == IF kind \in {"TunnellingInfo", "ManufacturerData"} THEN 4 ELSE 2

FixedSize(kind) ==
    CASE kind = "DeviceInfo" -> DeviceInfoSize
      [] kind = "IPConfig" -> IPConfigSize
      [] kind = "IPCurrentConfig" -> IPCurrentConfigSize
      [] kind = "ExtendedDeviceInfo" -> ExtendedDeviceInfoSize

\* Size()
DibSize(dib) ==
    CASE dib.kind \in FixedKinds -> FixedSize(dib.kind)
      [] dib.kind = "ManufacturerData" -> 4 + Len(dib.body)
      [] OTHER -> HeaderSize(dib.kind) + ItemSize(dib.kind) * Len(dib.items)

\* Pack into a buffer of Size() bytes.
DibPack(dib) ==
    <<Byte(DibSize(dib)), dib.type>>
    \o (IF HeaderSize(dib.kind) = 4 THEN PackU16(dib.word) ELSE <<>>)
    \o (IF dib.kind \in FixedKinds \cup {"ManufacturerData"}
        THEN dib.body
        ELSE PackItems(dib.kind, dib.items))

\* What Unpack returns, and the struct as it has become.
DibUnpacked(n, e, dib) == [n |-> n, err |-> e, dib |-> dib]

ErrInvalidLength == "invalid length"
ErrUnpackItem == "unable to unpack item"
ErrInvalidSlot == "invalid tunneling slot address"

\* Unpack of a block of fixed size: every field is read, then the length is
\* compared.
FixedDibUnpack(dib, data) ==
    LET size == FixedSize(dib.kind)
    IN  IF Len(data) < size
        THEN DibUnpacked(0, ErrUnexpectedEOF, dib)
        ELSE LET d == [dib EXCEPT !.type = data[2], !.body = SubSeq(data, 3, size)]
             IN  IF data[1] # Byte(size)
                 THEN DibUnpacked(size, ErrInvalidLength, d)
                 ELSE DibUnpacked(size, "none", d)

\* TunnellingSlot.Unpack and the test of TunnellingInfoDIB.Unpack, lines
\* 462-472 and 521-523: a slot without an address is refused.
SlotRefused(kind, item) == kind = "TunnellingInfo" /\ item[1] = 0

\* The same, with every slot taken.
SlotRefusedNever(kind, item) == FALSE

\* for n < uint(length) { ... }: the items are appended to those the struct
\* holds already.
RECURSIVE UnpackItems(_, _, _, _)
UnpackItems(dib, data, n, length) ==
    IF n >= length
    THEN DibUnpacked(n, "none", dib)
    ELSE IF Len(data) - n < ItemSize(dib.kind)
    THEN DibUnpacked(n, ErrUnpackItem, dib)
    ELSE LET item == UnpackItem(dib.kind, data, n)
         IN  IF SlotRefused(dib.kind, item)
             THEN DibUnpacked(n, ErrInvalidSlot, dib)
             ELSE UnpackItems([dib EXCEPT !.items = Append(@, item)], data,
                              n + ItemSize(dib.kind), length)

\* Unpack of SupportedServicesDIB, SecuredServicesDIB, KNXAddrsDIB and
\* TunnellingInfoDIB.
ListDibUnpack(dib, data) ==
    LET h == HeaderSize(dib.kind)
    IN  IF Len(data) < h
        THEN DibUnpacked(0, ErrUnexpectedEOF, dib)
        ELSE LET d == [dib EXCEPT !.type = data[2],
                                  !.word = IF h = 4 THEN UnpackU16(data, 2) ELSE @]
                 r == UnpackItems(d, data, h, data[1])
             IN  IF r.err # "none" THEN r
                 ELSE IF data[1] # Byte(DibSize(r.dib))
                 THEN DibUnpacked(r.n, ErrInvalidLength, r.dib)
                 ELSE r

\* ManufacturerDataDIB.Unpack: Data is what is left of the bytes given.
ManufacturerDataUnpack(dib, data) ==
    IF Len(data) < 4
    THEN DibUnpacked(0, ErrUnexpectedEOF, dib)
    ELSE LET d == [dib EXCEPT !.type = data[2], !.word = UnpackU16(data, 2),
                              !.body = From(data, 4)]
         IN  IF data[1] # Byte(DibSize(d))
             THEN DibUnpacked(4, ErrInvalidLength, d)
             ELSE DibUnpacked(4, "none", d)

\* dib.Unpack(data)
DibUnpack(dib, data) ==
    CASE dib.kind \in FixedKinds -> FixedDibUnpack(dib, data)
      [] dib.kind = "ManufacturerData" -> ManufacturerDataUnpack(dib, data)
      [] OTHER -> ListDibUnpack(dib, data)

(***************************************************************************)
(* DescriptionBlock.Unpack, part_002 lines 643-743.  The input is a        *)
(* slice: len(data) bytes (codecWire) of an array that may be longer       *)
(* (spare), as the caller made it.  The output holds the cursor n, the     *)
(* error, the fields of the DescriptionBlock and whether bytes beyond      *)
(* len(data) were handed to a block's Unpack.                              *)
(***************************************************************************)
BlockFields == [k \in DibKinds |-> ZeroDib(k)]
BlockOut(n, e, block, outside) ==
    [n |-> n, err |-> e, block |-> block, outside |-> outside]

\* data[n : n+uint(length)] of a slice with the capacity Len(data) + Len(spare).
SliceTo(data, spare, n, m) == SubSeq(data \o spare, n + 1, m)

\* One turn of the loop: for n < uint(len(data)) { ... }
UnpackBlockStep ==
    /\ codecPc = "blockParsing"
    /\ codecOut.n < Len(codecWire)
    /\ LET n == codecOut.n
           rest == From(codecWire, n)
       IN  IF Len(rest) < 2
           THEN /\ codecPc' = "blockFailed"
                /\ codecOut' = [codecOut EXCEPT !.n = 0, !.err = ErrUnexpectedEOF]
           ELSE LET length == rest[1]
                    kind == KindOfType(rest[2])
                IN  IF kind = "unknown"
                    THEN /\ codecPc' = "blockParsing"
                         /\ codecOut' = [codecOut EXCEPT !.n = n + length]
                    ELSE IF n + length > Len(codecWire) + Len(codecIn.spare)
                    THEN /\ codecPc' = "blockPanicked"
                         /\ codecOut' = codecOut
                    ELSE LET r == DibUnpack(codecOut.block[kind],
                                            SliceTo(codecWire, codecIn.spare, n, n + length))
                             out == codecOut.outside \/ n + length > Len(codecWire)
                         IN  IF r.err # "none"
                             THEN /\ codecPc' = "blockFailed"
                                  /\ codecOut' = BlockOut(0, r.err, codecOut.block, out)
                             ELSE /\ codecPc' = "blockParsing"
                                  /\ codecOut' = BlockOut(n + length, "none",
                                         [codecOut.block EXCEPT ![kind] = r.dib], out)
    /\ UNCHANGED <<connVars, tunnelVars, mgmtVars, procVars, runVars, codecIn, codecWire>>

\* The loop is left: return n, nil.
UnpackBlockReturn ==
    /\ codecPc = "blockParsing"
    /\ codecOut.n >= Len(codecWire)
    /\ codecPc' = "blockParsed"
    /\ UNCHANGED <<connVars, tunnelVars, mgmtVars, procVars, runVars, codecIn, codecWire, codecOut>>

(***************************************************************************)
(* SpecBlock: description blocks are put together from packed DIBs and     *)
(* from a block of a type that is not known, the last bytes may be         *)
(* missing, and DescriptionBlock.Unpack reads them.                        *)
(***************************************************************************)
Blob(kind, dib, bytes) == [kind |-> kind, dib |-> dib, bytes |-> bytes]
PackedDib(dib) == Blob(dib.kind, dib, DibPack(dib))

SampleDibs ==
    { Dib("DeviceInfo", DescriptionTypeDeviceInfo, 0, <<>>, <<32>> \o Zeros(51)),
      Dib("SupportedServices", DescriptionTypeSupportedServiceFamilies, 0,
          <<<<2, 1>>, <<4, 2>>>>, <<>>),
      Dib("IPConfig", DescriptionTypeIPConfig, 0, <<>>, <<10>> \o Zeros(13)),
      Dib("IPCurrentConfig", DescriptionTypeIPCurrentConfig, 0, <<>>, <<10>> \o Zeros(17)),
      Dib("KNXAddrs", DescriptionTypeKNXAddresses, 0, <<4353>>, <<>>),
      Dib("SecuredServices", DescriptionTypeSecuredServiceFamilies, 0, <<<<4, 1>>>>, <<>>),
      Dib("TunnellingInfo", DescriptionTypeTunnellingInfo, 254, <<<<4353, 6>>>>, <<>>),
      Dib("TunnellingInfo", DescriptionTypeTunnellingInfo, 254, <<<<0, 6>>>>, <<>>),
      Dib("ExtendedDeviceInfo", DescriptionTypeExtendedDeviceInfo, 0, <<>>, <<1>> \o Zeros(5)),
      Dib("ManufacturerData", DescriptionTypeManufacturerData, 197, <<>>, <<170>>) }

UnknownBlob == Blob("unknown", ZeroDib("unknown"), <<4, 32, 9, 9>>)
Blobs == {PackedDib(dib) : dib \in SampleDibs} \cup {UnknownBlob}

RECURSIVE Concat(_)
Concat(blobs) == IF blobs = <<>> THEN <<>> ELSE Head(blobs).bytes \o Concat(Tail(blobs))

Spares == {<<>>, <<7, 7>>}
BlockInputs ==
    { [blobs |-> b, cut |-> k, spare |-> s] :
        b \in SeqsUpTo(Blobs, MaxBlocks), k \in 0 .. MaxCut, s \in Spares }

InitBlock ==
    /\ InitSessions({})
    /\ InitProgram(0, 0)
    /\ codecPc = "blockParsing"
    /\ codecIn \in BlockInputs
    /\ codecIn.cut <= Len(Concat(codecIn.blobs))
    /\ codecWire = SubSeq(Concat(codecIn.blobs), 1, Len(Concat(codecIn.blobs)) - codecIn.cut)
    /\ codecOut = BlockOut(0, "none", BlockFields, FALSE)

NextBlock == UnpackBlockStep \/ UnpackBlockReturn

SpecBlock == InitBlock /\ [][NextBlock]_vars

(***************************************************************************)
(* The search request parameters (SRPs), knx/knxnet/search.go.  An SRP     *)
(* value has the fields Mandatory and Type; body is HardwareAddr of        *)
(* SelectMACAddr or Service and Version of SelectSrvSRP; descTypes is      *)
(* DescTypes of RequestDIBs.                                               *)
(***************************************************************************)
Srp(kind, mandatory, ty, body, descTypes) ==
    [kind |-> kind, mandatory |-> mandatory, type |-> ty, body |-> body,
     descTypes |-> descTypes]

ZeroSrp(kind) == Srp(kind, FALSE, 0, IF kind = "SelectMACAddr" THEN Zeros(6)
                                     ELSE IF kind = "SelectSrvSRP" THEN Zeros(2) ELSE <<>>, <<>>)

\* RequestDIBs pads the description types to an even number.
Padded(descTypes) == IF Len(descTypes) % 2 # 0 THEN Append(descTypes, 0) ELSE descTypes

\* Size()
SrpSize(srp) ==
    CASE srp.kind = "SelectProgMode" -> SelectProgModeSize
      [] srp.kind = "SelectMACAddr" -> SelectMACAddrSize
      [] srp.kind = "SelectSrvSRP" -> SelectSrvSRPSize
      [] srp.kind = "RequestDIBs" -> 2 + Len(Padded(srp.descTypes))

\* pld: the mandatory bit and the type.
Pld(srp) == BitOr(IF srp.mandatory THEN MandatoryBit ELSE 0, Byte(srp.type))

\* Pack: RequestDIBs alone writes its length.
SrpPack(srp) ==
    IF srp.kind = "RequestDIBs"
    THEN <<Byte(2 + Len(Padded(srp.descTypes))), Pld(srp)>> \o Padded(srp.descTypes)
    ELSE <<Pld(srp)>> \o srp.body

SrpUnpacked(n, e, srp) == [n |-> n, err |-> e, dib |-> srp]

\* The two fields every Unpack takes from pld.
WithPld(srp, pld) ==
    [srp EXCEPT !.mandatory = BitAnd(pld, MandatoryBit) # 0,
                !.type = BitAnd(pld, MandatoryBit - 1)]

\* Unpack of SelectProgMode, SelectMACAddr and SelectSrvSRP: a length byte,
\* pld and the other fields are read, then the length is compared with Size().
FixedSrpUnpack(srp, data) ==
    LET size == SrpSize(srp)
    IN  IF Len(data) < size + 1
        THEN SrpUnpacked(0, ErrUnexpectedEOF, srp)
        ELSE LET s == [srp EXCEPT !.body = SubSeq(data, 3, size + 1)]
             IN  IF data[1] # Byte(size)
                 THEN SrpUnpacked(size + 1, ErrInvalidLength, s)
                 ELSE SrpUnpacked(size, "none", WithPld(s, data[2]))

\* RequestDIBs.Unpack: the description types are data[n:length].
RequestDIBsUnpack(srp, data) ==
    IF Len(data) < 2
    THEN SrpUnpacked(0, ErrUnexpectedEOF, srp)
    ELSE LET length == data[1]
         IN  IF length < 2 \/ length > Len(data)
             THEN SrpUnpacked(2, "panic", WithPld(srp, data[2]))
             ELSE LET s == [WithPld(srp, data[2]) EXCEPT !.descTypes = SubSeq(data, 3, length)]
                  IN  IF length # Byte(SrpSize(s))
                      THEN SrpUnpacked(2, ErrInvalidLength, s)
                      ELSE SrpUnpacked(length, "none", s)

\* srp.Unpack(data)
SrpUnpack(srp, data) ==
    IF srp.kind = "RequestDIBs" THEN RequestDIBsUnpack(srp, data)
    ELSE FixedSrpUnpack(srp, data)

(***************************************************************************)
(* SpecDib: a DIB or an SRP is packed into a buffer of Size() bytes and    *)
(* unpacked from these bytes into a new struct.                            *)
(***************************************************************************)
ParameterTypeSelectProgMode == 1
ParameterTypeSelectMACAddr == 2
ParameterTypeSelectSrvSRP == 3
ParameterTypeRequestDIBs == 4

FamilyItems == {<<2, 1>>, <<4, 2>>}
AddrItems == {4353, 0}
SlotItems == {<<4353, 6>>, <<0, 6>>}

DibValues ==
    { Dib("DeviceInfo", DescriptionTypeDeviceInfo, 0, <<>>, <<b>> \o Zeros(51)) : b \in DataBytes }
    \cup { Dib("IPConfig", DescriptionTypeIPConfig, 0, <<>>, <<b>> \o Zeros(13)) : b \in DataBytes }
    \cup { Dib("IPCurrentConfig", DescriptionTypeIPCurrentConfig, 0, <<>>, <<b>> \o Zeros(17)) :
             b \in DataBytes }
    \cup { Dib("ExtendedDeviceInfo", DescriptionTypeExtendedDeviceInfo, 0, <<>>, <<b>> \o Zeros(5)) :
             b \in DataBytes }
    \cup { Dib("SupportedServices", DescriptionTypeSupportedServiceFamilies, 0, f, <<>>) :
             f \in SeqsUpTo(FamilyItems, MaxItems) }
    \cup { Dib("SecuredServices", DescriptionTypeSecuredServiceFamilies, 0, f, <<>>) :
             f \in SeqsUpTo(FamilyItems, MaxItems) }
    \cup { Dib("KNXAddrs", DescriptionTypeKNXAddresses, 0, a, <<>>) :
             a \in SeqsUpTo(AddrItems, MaxItems) }
    \cup { Dib("TunnellingInfo", DescriptionTypeTunnellingInfo, 254, s, <<>>) :
             s \in SeqsUpTo(SlotItems, MaxItems) }
    \cup { Dib("ManufacturerData", DescriptionTypeManufacturerData, 197, <<>>, d) :
             d \in SeqsUpTo(DataBytes, MaxItems) }

SrpValues ==
    { Srp("SelectProgMode", m, ParameterTypeSelectProgMode, <<>>, <<>>) : m \in BOOLEAN }
    \cup { Srp("SelectMACAddr", m, ParameterTypeSelectMACAddr, <<b>> \o Zeros(5), <<>>) :
             m \in BOOLEAN, b \in DataBytes }
    \cup { Srp("SelectSrvSRP", m, ParameterTypeSelectSrvSRP, <<b, 1>>, <<>>) :
             m \in BOOLEAN, b \in DataBytes }
    \cup { Srp("RequestDIBs", m, ParameterTypeRequestDIBs, <<>>, d) :
             m \in BOOLEAN,
             d \in SeqsUpTo({DescriptionTypeDeviceInfo, DescriptionTypeSupportedServiceFamilies},
                            MaxItems) }

PackDib ==
    /\ codecPc = "input"
    /\ codecIn \in DibValues
    /\ codecWire' = DibPack(codecIn)
    /\ codecPc' = "dibPacked"
    /\ UNCHANGED <<connVars, tunnelVars, mgmtVars, procVars, runVars, codecIn, codecOut>>

UnpackDib ==
    /\ codecPc = "dibPacked"
    /\ codecOut' = DibUnpack(ZeroDib(codecIn.kind), codecWire)
    /\ codecPc' = "dibUnpacked"
    /\ UNCHANGED <<connVars, tunnelVars, mgmtVars, procVars, runVars, codecIn, codecWire>>

PackSrp ==
    /\ codecPc = "input"
    /\ codecIn \in SrpValues
    /\ codecWire' = SrpPack(codecIn)
    /\ codecPc' = "srpPacked"
    /\ UNCHANGED <<connVars, tunnelVars, mgmtVars, procVars, runVars, codecIn, codecOut>>

UnpackSrp ==
    /\ codecPc = "srpPacked"
    /\ codecOut' = SrpUnpack(ZeroSrp(codecIn.kind), codecWire)
    /\ codecPc' = "srpUnpacked"
    /\ UNCHANGED <<connVars, tunnelVars, mgmtVars, procVars, runVars, codecIn, codecWire>>

InitDib ==
    /\ InitSessions({})
    /\ InitProgram(0, 0)
    /\ codecPc = "input"
    /\ codecIn \in DibValues \cup SrpValues
    /\ codecWire = <<>>
    /\ codecOut = NotUnpacked

NextDib == PackDib \/ UnpackDib \/ PackSrp \/ UnpackSrp

SpecDib == InitDib /\ [][NextDib]_vars

(***************************************************************************)
(* SpecBytes: unpackTransportUnit reads bytes as they come from the        *)
(* network: every sequence of at most MaxBytes of the bytes below, and     *)
(* every control unit of two bytes.                                        *)
(***************************************************************************)
\* 0, 1 and 2 as lengths; 2 and 3 followed by 192 make the prefixes 1011 and
\* 1111; 67 is a numbered data unit; 128 and 198 are control units.
ByteSamples == {0, 1, 2, 3, 67, 128, 192, 198}

ControlBytes == {b \in Bytes : BitAnd(b, Shl(1, 7)) = Shl(1, 7)}

ByteInputs ==
    SeqsUpTo(ByteSamples, MaxBytes) \cup {<<b0, b1>> : b0 \in {0, 1}, b1 \in ControlBytes}

UnpackBytes ==
    /\ codecPc = "bytes"
    /\ codecOut' = unpackTransportUnit(codecWire)
    /\ codecPc' = "bytesParsed"
    /\ UNCHANGED <<connVars, tunnelVars, mgmtVars, procVars, runVars, codecIn, codecWire>>

InitBytes ==
    /\ InitSessions({})
    /\ InitProgram(0, 0)
    /\ codecPc = "bytes"
    /\ codecIn = <<>>
    /\ codecWire \in ByteInputs
    /\ codecOut = NotUnpacked

NextBytes == UnpackBytes

SpecBytes == InitBytes /\ [][NextBytes]_vars

(***************************************************************************)
(* SearchResExt.Unpack, knx/knxnet/search.go lines 473-537.  Control is    *)
(* read by the HostInfo of the package; the loop starts behind it.  The    *)
(* output holds the cursor n, the error, res.DIBs (block) and whether      *)
(* bytes beyond len(data) were handed to a DIB's Unpack.                   *)
(***************************************************************************)
\* One turn of the loop: for n < uint(len(data)) { ... }
UnpackSearchResStep ==
    /\ codecPc = "resParsing"
    /\ codecOut.n < Len(codecWire)
    /\ LET n == codecOut.n
           rest == From(codecWire, n)
       IN  IF Len(rest) < 2
           THEN /\ codecPc' = "resFailed"
                /\ codecOut' = [codecOut EXCEPT !.err = ErrUnexpectedEOF]
           ELSE LET length == rest[1]
                    kind == KindOfType(rest[2])
                IN  IF kind = "unknown"
                    THEN \* default: ... continue
                         /\ codecPc' = "resParsing"
                         /\ codecOut' = codecOut
                    ELSE IF n + length > Len(codecWire) + Len(codecIn.spare)
                    THEN /\ codecPc' = "resPanicked"
                         /\ codecOut' = codecOut
                    ELSE LET r == DibUnpack(ZeroDib(kind),
                                            SliceTo(codecWire, codecIn.spare, n, n + length))
                             out == codecOut.outside \/ n + length > Len(codecWire)
                         IN  IF r.err # "none"
                             THEN /\ codecPc' = "resFailed"
                                  /\ codecOut' = BlockOut(0, r.err, codecOut.block, out)
                             ELSE /\ codecPc' = "resParsing"
                                  /\ codecOut' = BlockOut(n + length, "none",
                                         Append(codecOut.block, r.dib), out)
    /\ UNCHANGED <<connVars, tunnelVars, mgmtVars, procVars, runVars, codecIn, codecWire>>

\* The loop is left: return.
UnpackSearchResReturn ==
    /\ codecPc = "resParsing"
    /\ codecOut.n >= Len(codecWire)
    /\ codecPc' = "resParsed"
    /\ UNCHANGED <<connVars, tunnelVars, mgmtVars, procVars, runVars, codecIn, codecWire, codecOut>>

(***************************************************************************)
(* SpecScan: the two loops over description blocks read the same inputs,   *)
(* among them a block of an unknown type that declares the length 0.  A    *)
(* loop that is entered takes its turns: the fairness of a running         *)
(* function.                                                               *)
(***************************************************************************)
EmptyUnknownBlob == Blob("unknown", ZeroDib("unknown"), <<0, 32>>)
ScanBlobs == Blobs \cup {EmptyUnknownBlob}
ControlSamples == {<<8, 1, 10, 0, 0, 1, 14, 87>>}
Unpackers == {"DescriptionBlock", "SearchResExt"}

ScanInputs ==
    { [blobs |-> b, cut |-> k, spare |-> s, unpacker |-> u, control |-> c] :
        b \in SeqsUpTo(ScanBlobs, MaxBlocks), k \in 0 .. MaxCut, s \in Spares,
        u \in Unpackers, c \in ControlSamples }

InitScan ==
    /\ InitSessions({})
    /\ InitProgram(0, 0)
    /\ codecIn \in ScanInputs
    /\ codecIn.cut <= Len(Concat(codecIn.blobs))
    /\ LET dibs == SubSeq(Concat(codecIn.blobs), 1,
                          Len(Concat(codecIn.blobs)) - codecIn.cut)
       IN  IF codecIn.unpacker = "DescriptionBlock"
           THEN /\ codecPc = "blockParsing"
                /\ codecWire = dibs
                /\ codecOut = BlockOut(0, "none", BlockFields, FALSE)
           ELSE /\ codecPc = "resParsing"
                /\ codecWire = codecIn.control \o dibs
                /\ codecOut = BlockOut(Len(codecIn.control), "none", <<>>, FALSE)

NextScan ==
    \/ UnpackBlockStep
    \/ UnpackBlockReturn
    \/ UnpackSearchResStep
    \/ UnpackSearchResReturn

SpecScan == InitScan /\ [][NextScan]_vars /\ WF_vars(NextScan)

(***************************************************************************)
(* SpecEnd: the ends of a registered session meet.  The session to devA    *)
(* is established and stored in the registry; clients call Disconnect and  *)
(* Close of the Management while the device disconnects and the tunnel     *)
(* closes.  A goroutine that can run is eventually run, the tunnel's Send  *)
(* returns, and time passes.                                               *)
(***************************************************************************)
EndMsgs == {DiscInd(LocalAddr, "devA")}

EndCall(c) ==
    \/ ManagementDisconnect(c, "devA")
    \/ ManagementClose(c)

\* The steps of a call of the Management that is in progress.
EndRun(c) ==
    \/ ManagementCallDisconnect(c)
    \/ ManagementDisconnectReturn(c)
    \/ ManagementCloseLock(c)
    \/ ManagementCloseNext(c)

EndDemuxStep(d) ==
    \/ DemuxStep(d)
    \/ TunnelClosedSelect(d)
    \/ TunnelClosedClose(d)

InitEnd ==
    /\ InitSessions({1})
    /\ InitRegistry(EndCalls, EndDeliver, [a \in DeviceAddrs |-> IF a = "devA" THEN 1 ELSE 0])
    /\ CodecOff

NextEnd ==
    \/ \E c \in Clients : EndCall(c)
    \/ \E c \in Clients : EndRun(c)
    \/ \E p \in Procs : DisconnectStep(p)
    \/ \E d \in Demuxes : EndDemuxStep(d)
    \/ \E msg \in EndMsgs : Deliver(msg)
    \/ CloseTunnel
    \/ Tick

SpecEnd ==
    /\ InitEnd
    /\ [][NextEnd]_vars
    /\ WF_vars(Tick)
    /\ \A c \in Clients : WF_vars(EndRun(c))
    /\ \A p \in Procs : WF_vars(DisconnectStep(p))
    /\ \A d \in Demuxes : WF_vars(EndDemuxStep(d))

(***************************************************************************)
(* Properties.                                                             *)
(***************************************************************************)
\* The session is open: connected, done not signalled, serve running and
\* conn.inbound open.
SessionOpen(s) ==
    connected[s] /\ ~done[s] /\ pc[Demux(s)] = "serve" /\ ~inboundClosed[s]

\* The call of client c returns in this step with error e.
Returns(c, op, e) ==
    pc[c] # "idle" /\ pc'[c] = "idle" /\ result'.proc = c /\ result'.op = op
        /\ result'.err = e

\* C1, as amended: starting from a fresh session (seqNumber 15), the n-th
\* call of Send that reaches nextSeqNum, whether or not the call later
\* succeeds, is given the sequence number (n-1) mod 16; a request that is an
\* LDataReq wrapping an AppData is stamped numbered = true with that number,
\* and the frame handed to the tunnel carries it.  seqNumber is within 0..15
\* in every reachable state.
C1_SeqAllocation ==
    /\ [](\A s \in Sessions : seqNumber[s] \in 0 .. 15)
    /\ [][\A c \in Clients :
            /\ (pc[c] = "nextSeqNum" /\ pc'[c] # "nextSeqNum") =>
                 LET s == locals[c].self
                     n == nAlloc % 16
                     r == locals[c].req
                 IN  /\ nAlloc' = nAlloc + 1
                     /\ seqNumber'[s] = n
                     /\ (r.prim = "LDataReq" /\ r.kind = "AppData") =>
                           /\ pc'[c] = "applyRateLimit"
                           /\ locals'[c].seq = n
                           /\ locals'[c].req = [r EXCEPT !.numbered = TRUE, !.seq = n]
            /\ (pc[c] = "sendTx" /\ pc'[c] = "awaitAck") =>
                 /\ locals[c].req.numbered
                 /\ locals[c].req.seq = locals[c].seq
                 /\ locals'[c].sent = <<locals[c].req>>
       ]_vars

\* C1, witness: the seventeenth call has been given 0 again and its request,
\* stamped 0, has gone to the tunnel.
C1_SeventeenthSend ==
    /\ nAlloc = 17
    /\ seqNumber[1] = 0
    /\ \E c \in Clients :
          /\ pc[c] = "awaitAck"
          /\ locals[c].sent = <<Msg("LDataReq", SourceAddr, "devA", "AppData", TRUE, 0,
                                    MemoryRead)>>

\* C1, as stated: the n-th successful Send carries the sequence number
\* (n-1) mod 16.
C1_NthSuccessfulSend ==
    [][\A c \in Clients :
          (pc[c] = "ackTx" /\ Returns(c, "Send", "none")) =>
              /\ result'.sent[1].numbered
              /\ result'.sent[1].seq = nOk % 16
      ]_vars

\* C2, as stated: a Send passes its ACK phase only on an L_Data.ind carrying
\* a ControlAck whose sequence number is the one this call stamped on its
\* request, and an ACK with that number is never reported as a mismatch,
\* whatever other calls of Send do meanwhile.
C2_AckMatchesOwnSeq ==
    [][\A c \in Clients :
          pc[c] = "awaitAck" =>
             LET ack == Recv(inbound[locals[c].self])
                 own == /\ ack.prim = "LDataInd"
                        /\ ack.kind = "ControlAck"
                        /\ ack.seq = locals[c].seq
             IN  /\ pc'[c] = "awaitResp" => own
                 /\ Returns(c, "Send", ErrAckMismatch) => ~own
      ]_vars

\* C3: a Send that fails with ack mismatch or with a timeout (of the ACK or
\* of the response) changes nothing of the session: connected, done,
\* conn.inbound, the WaitGroup, seqNumber and the demultiplexer are as they
\* were, so an open session stays open; a Send on a connected session is
\* accepted, and it is given the next sequence number, (previous + 1) mod 16.
C3_SessionSurvivesFailure ==
    [][\A c \in Clients :
          /\ (\/ Returns(c, "Send", ErrAckMismatch)
              \/ Returns(c, "Send", ErrAckTimeout)
              \/ Returns(c, "Send", ErrTimeout)) =>
               /\ UNCHANGED <<created, connected, done, wait, inboundClosed, seqNumber>>
               /\ \A d \in Demuxes : pc'[d] = pc[d]
               /\ \A s \in Sessions : SessionOpen(s) => SessionOpen(s)'
          /\ \A s \in Sessions :
               (connected[s] /\ \E r \in Requests(s) : Send(c, s, r, MemoryResponse)) =>
                   pc'[c] = "nextSeqNum" /\ locals'[c].self = s
          /\ (pc[c] = "nextSeqNum" /\ pc'[c] = "applyRateLimit") =>
               LET s == locals[c].self
               IN  /\ seqNumber'[s] = (seqNumber[s] + 1) % 16
                   /\ locals'[c].seq = seqNumber'[s]
                   /\ locals'[c].req.seq = seqNumber'[s]
      ]_vars

\* C3, witness: a client whose Send failed with ack mismatch at sequence
\* number 0 has sent again on the open session, with sequence number 1.
C3_SendAfterMismatch ==
    \E c \in Clients :
        /\ result.proc = c
        /\ result.op = "Send"
        /\ result.err = ErrAckMismatch
        /\ result.sent[1].seq = 0
        /\ pc[c] = "awaitAck"
        /\ locals[c].seq = 1
        /\ SessionOpen(1)

\* C4: a Send that returns successfully returns an L_Data.ind wrapping an
\* AppData whose command is the expected one, taken from conn.inbound in the
\* response phase; a message that is not such a response is removed and not
\* taken; and the call has handed to the tunnel, after its request, exactly
\* one T_ACK, addressed to the source of the indication and carrying the
\* indication's sequence number.
C4_ResponseAndAck ==
    [][\A c \in Clients :
          LET s == locals[c].self
              res == Recv(inbound[s])
              matches == /\ res.prim = "LDataInd"
                         /\ res.kind = "AppData"
                         /\ res.cmd = locals[c].exp
          IN
          /\ (pc[c] = "awaitResp" /\ pc'[c] = "applyRateLimit") =>
               matches /\ locals'[c].ind = res
          /\ (pc[c] = "awaitResp" /\ ~matches /\ Len(inbound'[s]) < Len(inbound[s])) =>
               /\ inbound'[s] = Tail(inbound[s])
               /\ pc'[c] = "awaitResp"
               /\ locals'[c] = locals[c]
          /\ (pc[c] = "ackTx" /\ Returns(c, "Send", "none")) =>
               /\ result'.val = locals[c].ind
               /\ result'.val.prim = "LDataInd"
               /\ result'.val.kind = "AppData"
               /\ result'.val.cmd = locals[c].exp
               /\ result'.sent =
                     <<locals[c].req,
                       Msg("LDataReq", SourceAddr, result'.val.src, "ControlAck", TRUE,
                           result'.val.seq, Ack)>>
               /\ locals[c].req.kind = "AppData"
      ]_vars

\* C4, witness: a Send that expected MemoryRead returned the indication of
\* devB, numbered 5, after acknowledging it to devB with 5; the tunnel has
\* delivered all its messages, the answer of devA among them.
C4_AnsweredAndAcked ==
    /\ result.op = "Send"
    /\ result.err = "none"
    /\ result.val = AppInd("devB", LocalAddr, 5, MemoryRead)
    /\ Len(result.sent) = 2
    /\ result.sent[2].dst = "devB"
    /\ result.sent[2].seq = 5
    /\ toDeliver = 0

\* C5: a Send on a session that is not connected returns the not-connected
\* error at once: it hands no frame to the tunnel and leaves seqNumber,
\* lastSend and conn.inbound as they were.
C5_SendRejected ==
    [][\A c \in Clients : \A s \in Sessions :
          (~connected[s] /\ \E r \in Requests(s) : Send(c, s, r, MemoryResponse)) =>
              /\ pc'[c] = "idle"
              /\ result' = Result(c, "Send", ErrNotConnected, NoMsg, 0, <<>>)
              /\ UNCHANGED <<seqNumber, lastSend, inbound, nAlloc>>
      ]_vars

\* C5, witness: a Send has been rejected on the session a Disconnect closed.
C5_Rejected ==
    \E c \in Clients :
        /\ result = Result(c, "Send", ErrNotConnected, NoMsg, 0, <<>>)
        /\ pc[c] = "idle"
        /\ ~connected[1]
        /\ seqNumber[1] = InitialSeqNumber

\* C6, as stated: once done is signalled, a Send waiting for its ACK or for
\* its response does nothing but return: it takes no acknowledgement and no
\* response, and what it returns is the connection-closed error (or, the
\* timer having fired as well, a timeout).
C6_DoneEndsWaitingSend ==
    [][\A c \in Clients :
          (pc[c] \in {"awaitAck", "awaitResp"} /\ done[locals[c].self]
             /\ pc'[c] # pc[c]) =>
              \/ Returns(c, "Send", ErrClosed)
              \/ Returns(c, "Send", ErrAckTimeout)
              \/ Returns(c, "Send", ErrTimeout)
      ]_vars

\* The only goroutine that may take a message from the tunnel is client c.
OnlyReader(c) ==
    /\ \A d \in Demuxes : pc[d] # "serve"
    /\ \A b \in Clients : b # c => pc[b] # "connWait"

\* C7: NewP2PConnection hands one T_CONNECT to the tunnel; it returns a
\* session, connected and with its demultiplexer running, exactly when the
\* call reads an L_Data.con wrapping a ControlConn from the tunnel; any other
\* message it reads is removed and changes nothing; on the timeout, or on the
\* tunnel's channel being closed, it returns an error and no session, and no
\* demultiplexer runs.
C7_Handshake ==
    [][\A c \in Clients :
          LET s == locals[c].self
              msg == Recv(tunnelInbound)
              confirm == msg.prim = "LDataCon" /\ msg.kind = "ControlConn"
          IN
          /\ (pc[c] = "connTx" /\ pc'[c] = "connWait") =>
               locals'[c].sent =
                  <<Msg("LDataReq", SourceAddr, targetAddr[s], "ControlConn", FALSE, 0,
                        Connect)>>
          /\ (pc[c] = "connWait" /\ Returns(c, "NewP2PConnection", "none")) =>
               /\ confirm
               /\ tunnelInbound' = Tail(tunnelInbound)
               /\ result'.conn = s
               /\ result'.sent = locals[c].sent
               /\ Len(result'.sent) = 1
               /\ created'[s] /\ connected'[s] /\ ~done'[s]
               /\ wait'[s] = 1
               /\ pc'[Demux(s)] = "serve"
          /\ (pc[c] = "connWait" /\ pc'[c] # "connWait"
                /\ ~Returns(c, "NewP2PConnection", "none")) =>
               /\ \/ Returns(c, "NewP2PConnection", ErrResponseTimeout)
                  \/ /\ Returns(c, "NewP2PConnection", ErrTunnelClosed)
                     /\ tunnelClosed
                     /\ tunnelInbound = <<>>
               /\ tunnelInbound' = tunnelInbound
               /\ result'.conn = 0
               /\ ~created'[s] /\ ~connected'[s]
               /\ wait'[s] = 0
               /\ pc'[Demux(s)] = "unborn"
          /\ (pc[c] = "connWait" /\ OnlyReader(c) /\ Len(tunnelInbound) > 0
                /\ tunnelInbound' = Tail(tunnelInbound)) =>
               IF confirm
               THEN Returns(c, "NewP2PConnection", "none")
               ELSE /\ pc'[c] = "connWait"
                    /\ locals'[c] = locals[c]
                    /\ UNCHANGED connVars
      ]_vars

\* C7, witness: NewP2PConnection has returned a connected session whose
\* demultiplexer runs, and both messages of the tunnel were read by calls of
\* NewP2PConnection: one of them was not the confirmation.
C7_Connected ==
    \E c \in Clients :
        /\ result.proc = c
        /\ result.op = "NewP2PConnection"
        /\ result.err = "none"
        /\ result.conn = 1
        /\ connected[1]
        /\ pc[Demux(1)] = "serve"
        /\ toDeliver = 0
        /\ tunnelInbound = <<>>
        /\ inbound[1] = <<>>

\* C8: when the Disconnect a client called on a connected session returns,
\* connected is false, done is signalled, the demultiplexer has exited and
\* conn.inbound is closed, whether or not the T_DISCONNECT went out; the
\* call returns the error of that transmission, nil if it went out.
C8_DisconnectTearsDown ==
    [][\A c \in Clients :
          (pc[c] = "discWait" /\ pc'[c] = "idle") =>
             LET s == locals[c].self
             IN  /\ ~connected'[s]
                 /\ done'[s]
                 /\ pc'[Demux(s)] = "exited"
                 /\ inboundClosed'[s]
                 /\ wait'[s] = 0
                 /\ result'.proc = c
                 /\ result'.op = "Disconnect"
                 /\ \/ /\ result'.err = "none"
                       /\ result'.sent =
                             <<Msg("LDataReq", SourceAddr, targetAddr[s], "ControlDisc",
                                   FALSE, 0, Disconnect)>>
                    \/ /\ result'.err = ErrSendDisc
                       /\ result'.sent = <<>>
      ]_vars

\* C8, witness: a Disconnect whose T_DISCONNECT could not be sent has
\* returned that error, with the session torn down.
C8_DisconnectedDespiteError ==
    \E c \in Clients :
        /\ result = Result(c, "Disconnect", ErrSendDisc, NoMsg, 0, <<>>)
        /\ ~connected[1]
        /\ done[1]
        /\ inboundClosed[1]
        /\ pc[Demux(1)] = "exited"

\* C9: a Disconnect on a session that is not connected returns nil at once:
\* it hands no frame to the tunnel, does not wait for the demultiplexer, and
\* no field of the session changes.
C9_DisconnectWhenClosed ==
    [][\A c \in Clients : \A s \in Sessions :
          (~connected[s] /\ DisconnectCall(c, s)) =>
              /\ pc'[c] = "idle"
              /\ result' = Result(c, "Disconnect", "none", NoMsg, 0, <<>>)
              /\ UNCHANGED connVars
      ]_vars

\* C9, witness: a Disconnect returned nil on a session that is no longer
\* connected while its demultiplexer was still running.
C9_ReturnedWhileServing ==
    \E c \in Clients :
        /\ result = Result(c, "Disconnect", "none", NoMsg, 0, <<>>)
        /\ pc[c] = "idle"
        /\ ~connected[1]
        /\ wait[1] = 1
        /\ pc[Demux(1)] = "serve"

\* C10, as stated: the demultiplexer never blocks forever in handling a
\* disconnect request of the device.  The one wait of that handling is
\* conn.wait.Wait() in Disconnect, and the counter it waits for is taken down
\* by the demultiplexer's own return, by nothing else: the demultiplexer is
\* never at that wait with the counter above zero.
C10_DemuxNeverWaitsForItself ==
    \A d \in Demuxes : pc[d] = "discWait" => wait[locals[d].self] = 0

\* The demultiplexer of session s is in handleTunnelClosed or beyond it.
TunnelClosedSeen(s) ==
    pc[Demux(s)] \in {"tcSelect", "tcClose", "exitClose", "exitDone", "exited"}

\* C11: when the demultiplexer finds the tunnel's inbound channel closed, it
\* marks the session disconnected; from then on connected stays false and
\* every Send on the session is rejected as not connected, with no frame
\* handed to the tunnel; serve returns only with done signalled, and it has
\* returned only with conn.inbound closed; and a running demultiplexer whose
\* tunnel is closed eventually has exited, with connected false, done
\* signalled and conn.inbound closed.
C11_TunnelClosedTearsDown ==
    /\ [](\A s \in Sessions :
            /\ TunnelClosedSeen(s) => ~connected[s] /\ tunnelClosed
            /\ pc[Demux(s)] \in {"exitClose", "exitDone", "exited"} => done[s]
            /\ pc[Demux(s)] = "exited" => inboundClosed[s] /\ wait[s] = 0)
    /\ [][\A s \in Sessions :
            /\ (pc[Demux(s)] = "serve" /\ tunnelClosed /\ tunnelInbound = <<>>
                  /\ pc'[Demux(s)] # "serve") => TunnelClosedSeen(s)'
            /\ TunnelClosedSeen(s) => TunnelClosedSeen(s)'
            /\ \A c \in Clients :
                  (TunnelClosedSeen(s) /\ \E r \in Requests(s) : Send(c, s, r, MemoryResponse)) =>
                      /\ pc'[c] = "idle"
                      /\ result' = Result(c, "Send", ErrNotConnected, NoMsg, 0, <<>>)
       ]_vars
    /\ \A s \in Sessions :
          (pc[Demux(s)] = "serve" /\ tunnelClosed) ~>
              (pc[Demux(s)] = "exited" /\ ~connected[s] /\ done[s] /\ inboundClosed[s])

\* C11, witness: the tunnel closed after delivering its message, the
\* demultiplexer has exited, and a Send was then rejected.
C11_RejectedAfterTunnelClosed ==
    \E c \in Clients :
        /\ result = Result(c, "Send", ErrNotConnected, NoMsg, 0, <<>>)
        /\ tunnelClosed
        /\ pc[Demux(1)] = "exited"
        /\ done[1] /\ inboundClosed[1] /\ ~connected[1]
        /\ toDeliver = 0

\* C12: Management.Connect(addr) on an entry whose session is connected
\* returns that session, hands no frame to the tunnel and changes neither
\* the registry nor any session; on an entry whose session is not connected
\* it deletes the entry and goes on to create a session, and the session a
\* successful creation yields is a fresh one, connected, whose T_CONNECT the
\* call has sent, and it is stored under addr and returned.  Whatever
\* Connect, Disconnect, GetConnection and Close are called, a connected
\* session is the entry of its address, or about to be stored by the Connect
\* that created it: no address has two connected sessions.
C12_ConnectReusesOrReplaces ==
    /\ [](\A s \in Sessions :
            (created[s] /\ connected[s]) =>
                /\ \/ connections[targetAddr[s]] = s
                   \/ \E c \in Clients : pc[c] = "mgmtConnectRet" /\ locals[c].conn = s
                /\ \A r \in Sessions :
                      (created[r] /\ connected[r] /\ targetAddr[r] = targetAddr[s]) => r = s)
    /\ [][\A c \in Clients : \A addr \in MgmtAddrs :
            LET s == connections[addr]
            IN  /\ (s # 0 /\ connected[s] /\ ManagementConnect(c, addr)) =>
                      /\ pc'[c] = "idle"
                      /\ result' = Result(c, "Management.Connect", "none", NoMsg, s, <<>>)
                      /\ UNCHANGED <<connections, connVars>>
                /\ (s # 0 /\ ~connected[s] /\ ManagementConnect(c, addr)) =>
                      /\ connections'[addr] = 0
                      /\ pc'[c] = "mgmtConnectNew"
                      /\ locals'[c].addr = addr
                /\ (pc[c] = "mgmtConnectRet" /\ locals[c].addr = addr
                      /\ Returns(c, "Management.Connect", "none")) =>
                      LET n == result'.conn
                      IN  /\ n # 0 /\ n # s
                          /\ connections'[addr] = n
                          /\ created[n] /\ connected[n] /\ targetAddr[n] = addr
                          /\ seqNumber[n] = InitialSeqNumber
                          /\ result'.sent =
                                <<Msg("LDataReq", SourceAddr, addr, "ControlConn", FALSE, 0,
                                      Connect)>>
       ]_vars

\* C12, witness: the entry of devA was a session that is no longer connected;
\* a Connect has replaced it by a new, connected session.
C12_StaleEntryReplaced ==
    \E c \in Clients :
        /\ result = Result(c, "Management.Connect", "none", NoMsg, 2,
                           <<NewConnReq(SourceAddr, "devA")>>)
        /\ connections["devA"] = 2
        /\ created[1] /\ ~connected[1]
        /\ connected[2]

\* C13, as stated: Management.Disconnect(addr) without an entry for addr
\* returns the not-found error and changes neither the registry nor any
\* session; with an entry, every return of the call leaves the entry's
\* session disconnected and the registry without an entry for addr.
C13_DisconnectRemovesEntry ==
    [][\A c \in Clients : \A addr \in MgmtAddrs :
          /\ (connections[addr] = 0 /\ ManagementDisconnect(c, addr)) =>
                /\ pc'[c] = "idle"
                /\ result' = Result(c, "Management.Disconnect", ErrNotFound, NoMsg, 0, <<>>)
                /\ UNCHANGED <<connections, connVars>>
          /\ (pc[c] = "mgmtDisconnectRet" /\ locals[c].addr = addr /\ pc'[c] = "idle") =>
                /\ ~connected'[connections[addr]]
                /\ connections'[addr] = 0
      ]_vars

\* C14, as stated: a session that was closed is not returned by the next
\* access of the Management for its address: GetConnection reports no
\* session, Connect deletes the entry and does not return the session, and
\* a Disconnect that finds the session closed (conn.Disconnect() returns nil
\* at once) deletes the entry.
C14_ClosedSessionNotReturned ==
    [][\A c \in Clients : \A addr \in MgmtAddrs :
          LET s == connections[addr]
          IN  (s # 0 /\ ~connected[s]) =>
                /\ GetConnection(c, addr) => result'.conn = 0
                /\ ManagementConnect(c, addr) =>
                      connections'[addr] = 0 /\ pc'[c] = "mgmtConnectNew"
                /\ (pc[c] = "mgmtDisconnectRet" /\ locals[c].addr = addr
                      /\ locals[c].err = "none" /\ pc'[c] = "idle") =>
                      connections'[addr] = 0
      ]_vars

\* C15, as stated: when Management.Close returns, every session that has an
\* entry in the registry is disconnected: connected is false, done is
\* signalled and the demultiplexer has exited.
C15_CloseDisconnectsAll ==
    [][\A c \in Clients :
          (pc[c] = "mgmtCloseNext" /\ pc'[c] = "idle") =>
              \A addr \in MgmtAddrs :
                  LET s == connections[addr]
                  IN  s # 0 => ~connected'[s] /\ done'[s] /\ pc'[Demux(s)] = "exited"
      ]_vars

\* C16, as stated: a goroutine leaves applyRateLimit, to hand its frame to
\* the tunnel, no sooner than one interval (1 s / rateLimit) after the
\* previous goroutine left it on the same session, also when several
\* goroutines send concurrently.
C16_ReleasesOneIntervalApart ==
    [][\A p \in Procs :
          (pc[p] \in {"applyRateLimit", "sleep"}
             /\ pc'[p] \notin {"applyRateLimit", "sleep"}) =>
              lastSend[locals[p].self] >= Interval(DefaultRateLimit)
      ]_vars

\* C17, as stated: every numbered data frame a session hands to the tunnel
\* carries the sequence number that follows, modulo 16, the number of the
\* data frame the session handed to the tunnel before it, however the calls
\* of Send interleave.
C17_DataFramesInSequence ==
    [][\A c \in Clients :
          (pc[c] = "sendTx" /\ pc'[c] = "awaitAck" /\ lastTx[locals[c].self] # 0 - 1) =>
              locals[c].req.seq = (lastTx[locals[c].self] + 1) % 16
      ]_vars

\* The numbers of the messages of a channel grow from its head to its tail.
Increasing(ch) == \A i, j \in 1 .. Len(ch) : i < j => ch[i].seq < ch[j].seq

\* C18: the device numbering its messages in the order the tunnel delivers
\* them, conn.inbound followed by the tunnel's channel holds them in growing
\* order at every moment: none twice, none ahead of an earlier one.
\* conn.inbound changes in two ways only: a Send waiting for its ACK or its
\* response takes the message at its head (and the response a Send keeps is
\* that message), or the demultiplexer appends at its tail the message it
\* takes from the head of the tunnel's channel.  So the messages the
\* consumers read, in the order they read them, are a subsequence of those
\* the demultiplexer read, in the same order.
C18_InboundKeepsTunnelOrder ==
    /\ [](\A s \in Sessions : created[s] => Increasing(inbound[s] \o tunnelInbound))
    /\ [][\A s \in Sessions :
            /\ inbound'[s] # inbound[s] =>
                  \/ /\ Len(inbound[s]) > 0
                     /\ inbound'[s] = Tail(inbound[s])
                     /\ UNCHANGED tunnelInbound
                     /\ \E c \in Clients :
                           /\ pc[c] \in {"awaitAck", "awaitResp"}
                           /\ locals[c].self = s
                           /\ \A b \in Procs \ {c} : pc'[b] = pc[b]
                           /\ locals'[c].ind # NoMsg => locals'[c].ind = Head(inbound[s])
                  \/ /\ Len(tunnelInbound) > 0
                     /\ inbound'[s] = Append(inbound[s], Head(tunnelInbound))
                     /\ tunnelInbound' = Tail(tunnelInbound)
                     /\ pc[Demux(s)] = "serve"
            /\ (pc[Demux(s)] = "serve" /\ Len(tunnelInbound') < Len(tunnelInbound)) =>
                  tunnelInbound' = Tail(tunnelInbound)
       ]_vars

\* C18, witness: the tunnel delivered eleven messages, numbered 0 to 10, of
\* which the demultiplexer dropped the last; a Send then took the ACK and
\* the response from the head of conn.inbound, which holds the messages 2
\* to 9 in their order.
C18_ReadInOrder ==
    /\ result.op = "Send"
    /\ result.err = "none"
    /\ result.val = AppInd("devA", LocalAddr, 1, MemoryResponse)
    /\ toDeliver = 0
    /\ tunnelInbound = <<>>
    /\ Len(inbound[1]) = 8
    /\ \A i \in 1 .. 8 : inbound[1][i].seq = i + 1

\* C19: conn.inbound never holds more than 10 messages; a demultiplexer at
\* its select with a message in the tunnel's channel can always take it, and
\* when conn.inbound holds 10 messages the message taken is dropped:
\* conn.inbound stays as it is and the demultiplexer is back at its select.
C19_InboundBounded ==
    /\ [](\A s \in Sessions : Len(inbound[s]) <= 10)
    /\ [](\A d \in Demuxes :
            (~panicked /\ pc[d] = "serve" /\ Len(tunnelInbound) > 0) => ENABLED ServeRecv(d))
    /\ [][\A s \in Sessions :
            (pc[Demux(s)] = "serve" /\ Len(inbound[s]) = 10
               /\ Len(tunnelInbound') < Len(tunnelInbound)) =>
                /\ tunnelInbound' = Tail(tunnelInbound)
                /\ inbound'[s] = inbound[s]
                /\ pc'[Demux(s)] = "serve"
       ]_vars

\* C19, witness: no client reading, the tunnel delivered eleven messages and
\* the demultiplexer took them all: conn.inbound holds the first ten.
C19_EleventhDropped ==
    /\ calls = QueueCalls
    /\ toDeliver = 0
    /\ tunnelInbound = <<>>
    /\ pc[Demux(1)] = "serve"
    /\ Len(inbound[1]) = 10
    /\ inbound[1][10].seq = 9

\* C20: every call of Send and of NewP2PConnection eventually returns,
\* whatever the tunnel delivers, and if it delivers nothing: the waits of the
\* handshake, of the ACK and of the response each have a timer.
C20_CallsReturn ==
    \A c \in Clients : (pc[c] # "idle") ~> (pc[c] = "idle")

\* C20, witness: the tunnel has delivered nothing, every call has been made
\* and has returned, the last one a handshake that timed out.
C20_ReturnedWithoutDelivery ==
    /\ toDeliver = LiveDeliver
    /\ calls = 0
    /\ Quiet
    /\ result.op = "NewP2PConnection"
    /\ result.err = ErrResponseTimeout
    /\ nAlloc > 0

(***************************************************************************)
(* The codecs.                                                             *)
(***************************************************************************)
\* The data of an AppData as it comes back: that of a standard command has
\* lost the high two bits of its first byte.
RoundTripData(app) ==
    IF IsStandardCommand(app.command)
    THEN [app.data EXCEPT ![1] = app.data[1] % 64]
    ELSE app.data

\* C21: for every supported APCI, every numbered flag, every sequence number
\* and every payload of 1 to 255 bytes, unpacking the packed AppData succeeds
\* and yields the AppData with the same flag, number and command, and the
\* same data but for the high two bits of the first byte of a standard
\* command.
C21_AppDataRoundTrip ==
    (/\ codecPc = "unpacked"
     /\ codecIn.kind = "AppData"
     /\ Len(codecIn.data) \in 1 .. MaxDataLength)
    => /\ codecOut.err = "none"
       /\ codecOut.unit = AppData(codecIn.numbered, codecIn.seq, codecIn.command,
                                  RoundTripData(codecIn))

\* C22: unpacking a packed ControlData, of any numbered flag, any sequence
\* number and any of the four commands, succeeds and yields a control unit
\* with the same flag, number and command; and T_ACK with number 5 packs to
\* the bytes 00 D6 and unpacks to Ack(5).
C22_ControlDataRoundTrip ==
    (codecPc = "unpacked" /\ codecIn.kind = "ControlData")
    => /\ codecOut.err = "none"
       /\ codecOut.unit.numbered = codecIn.numbered
       /\ codecOut.unit.seq = codecIn.seq
       /\ codecOut.unit.command = codecIn.command
       /\ codecIn = ControlData(TRUE, 5, Ack)
          => codecWire = <<0, 214>> /\ codecOut.unit = TAck(5)

\* The byte Go's index i holds in the packed form of the unit under test.
WireByte(i) == codecWire[i + 1]

\* C23: AppData.Pack into a zeroed buffer of Size() bytes writes the length
\* byte clamp(len(data), 1, 255), plus 1 for an extended command; the control
\* byte (numbered ? 0x40 : 0) | ((seq & 0xF) << 2) | ((apci >> 8) & 3); then
\* for a standard command ((apci >> 6) & 3) << 6 | (data[0] & 0x3F) and
\* data[1..], for an extended one apci & 0xFF and data[0..].  GroupValueWrite
\* with [0x01] gives 01 00 81, MemoryExtendedRead with [0xAA, 0xBB] gives
\* 03 01 FD AA BB.
C23_AppDataLayout ==
    (codecPc = "packed" /\ codecIn.kind = "AppData")
    => LET app == codecIn
           n == Len(app.data)
           clamp == IF n < 1 THEN 1 ELSE IF n > 255 THEN 255 ELSE n
           at(i) == IF i <= n THEN app.data[i] ELSE 0
           std == IsStandardCommand(app.command)
       IN  /\ WireByte(0) = clamp + (IF std THEN 0 ELSE 1)
           /\ WireByte(1) = (IF app.numbered THEN 64 ELSE 0) + (app.seq % 16) * 4
                            + ((app.command \div 256) % 4)
           /\ std => /\ WireByte(2) = ((app.command \div 64) % 4) * 64 + (at(1) % 64)
                     /\ \A i \in 2 .. clamp : WireByte(i + 1) = at(i)
           /\ ~std => /\ WireByte(2) = app.command % 256
                      /\ \A i \in 1 .. clamp : WireByte(i + 2) = at(i)
           /\ app = AppData(FALSE, 0, 128, <<1>>) => codecWire = <<1, 0, 129>>
           /\ app = AppData(FALSE, 0, 509, <<170, 187>>)
              => codecWire = <<3, 1, 253, 170, 187>>

\* C24: unpacking a data unit (bit 7 of the second byte clear) fails with
\* short input whenever the input holds fewer than L + 2 bytes, L being the
\* length byte, and succeeds when it holds at least L + 2 bytes and at least
\* 3: no unit is built from payload bytes the input does not hold.
C24_ShortInputRejected ==
    (/\ codecPc \in {"unpacked", "parsed"}
     /\ Len(codecWire) >= 2
     /\ codecWire[2] < 128)
    => LET L == codecWire[1]
       IN  /\ Len(codecWire) < L + 2 => codecOut.err = ErrUnexpectedEOF
           /\ (Len(codecWire) >= L + 2 /\ Len(codecWire) >= 3)
              => codecOut.err = "none"

\* The commands with the low six bits zero and a prefix below 15, but for
\* UserMemoryRead.
StandardByValue == {64 * k : k \in 0 .. 14} \ {UserMemoryRead}

\* C27: for every 10-bit APCI a, IsStandardCommand(a) is true exactly when a
\* is not UserMemoryRead, its low six bits are zero and a >> 6 < 15;
\* IsGroupCommand(a) is true exactly when a >> 6 < 3; and Pack uses the
\* standard encoding (the command in the first two bytes after the length,
\* shared with the first data byte) exactly for the standard commands.
C27_ApciPredicates ==
    LET a == codecIn.command
        n == Len(codecIn.data)
        clamp == IF n < 1 THEN 1 ELSE IF n > 255 THEN 255 ELSE n
    IN  /\ codecPc = "classified"
           => /\ codecOut.standard <=> a \in StandardByValue
              /\ codecOut.group <=> a < 3 * 64
        /\ codecPc = "packed"
           => IF a \in StandardByValue
              THEN Len(codecWire) = 2 + clamp
              ELSE Len(codecWire) = 3 + clamp /\ WireByte(2) = a % 256

\* UserMemoryRead, whose low six bits are zero, was packed with a command byte.
C27_UserMemoryReadExtended ==
    /\ codecPc = "packed"
    /\ codecIn.command = UserMemoryRead
    /\ codecWire = <<2, 2, 192, 1>>

\* The DIBs of the input that pass the validation of their own Unpack.
ValidBlob(blob) ==
    blob.kind = "TunnellingInfo" =>
        \A i \in 1 .. Len(blob.dib.items) : blob.dib.items[i][1] # 0

\* The last block of a kind in the input.
LastOfKind(blobs, i) == \A j \in i + 1 .. Len(blobs) : blobs[j].kind # blobs[i].kind

BlockPcs == {"blockParsing", "blockParsed", "blockFailed", "blockPanicked"}

\* DescriptionBlock.Unpack does not crash and hands no byte beyond the input
\* to a DIB.
BlockInsideInput == codecPc # "blockPanicked" /\ ~codecOut.outside

\* It fails only when bytes are missing or a DIB is refused by its own Unpack.
BlockFailsOnlyOnBadInput ==
    codecPc = "blockFailed" =>
        \/ codecIn.cut > 0
        \/ \E i \in 1 .. Len(codecIn.blobs) : ~ValidBlob(codecIn.blobs[i])

\* A complete input is read to its end, blocks of unknown type included, and
\* every recognised DIB is in its field.
BlockFilled ==
    codecPc = "blockParsed" /\ codecIn.cut = 0 =>
        /\ codecOut.n = Len(codecWire)
        /\ \A i \in 1 .. Len(codecIn.blobs) :
             LET blob == codecIn.blobs[i]
             IN  blob.kind # "unknown" /\ LastOfKind(codecIn.blobs, i)
                     => codecOut.block[blob.kind] = blob.dib

\* C25: DescriptionBlock.Unpack takes the DIBs in any order and any subset
\* and fills the field of each recognised type, skips a DIB of unknown type by
\* its declared length, and fails, with an error and without reading outside
\* the input, only when the input is truncated or a DIB fails its validation.
C25_DescriptionBlockUnpack ==
    codecPc \in BlockPcs =>
        BlockInsideInput /\ BlockFailsOnlyOnBadInput /\ BlockFilled

\* C26: a DIB of any variant and an SRP of any variant, packed into Size()
\* bytes and unpacked from them, is the value it was.
C26_DibSrpRoundTrip ==
    codecPc \in {"dibUnpacked", "srpUnpacked"} =>
        codecOut.err = "none" /\ codecOut.dib = codecIn

\* C28: the done channel of a session is closed at most once: neither
\* Disconnect, called by one client or by two at the same time, nor
\* handleDisconnect nor handleTunnelClosed closes a done that is closed
\* already (close of a closed channel panics).
C28_DoneClosedOnce == ~panicked

(***************************************************************************)
(* The session mutex.  conn.mu is locked in Disconnect (lines 128-133 and  *)
(* 144-146), requestConn (169-174), handleTunnelClosed (286-288),          *)
(* nextSeqNum (301-306) and applyRateLimit (372-382).  The steps below     *)
(* read or write seqNumber, connected or lastSend in no such section.      *)
(***************************************************************************)
\* Send, line 58: if !conn.connected.
SendReadsConnected ==
    \E c \in Clients : \E s \in Sessions : \E r \in Requests(s) : \E e \in ExpectedCmds :
        Send(c, s, r, e)

\* awaitAck, lines 337-340: ack.SeqNumber != conn.seqNumber, for a T_ACK taken
\* from conn.inbound.
AwaitAckReadsSeqNumber ==
    \E c \in Clients :
        /\ pc[c] = "awaitAck"
        /\ Recv(inbound[locals[c].self]).prim = "LDataInd"
        /\ Recv(inbound[locals[c].self]).kind = "ControlAck"
        /\ AwaitAckRecv(c)

\* requestConn, line 206: conn.connected = true, for the confirmation of the
\* T_CONNECT.
RequestConnWritesConnected ==
    \E c \in Clients :
        /\ Len(tunnelInbound) > 0
        /\ isConnConfirm(Recv(tunnelInbound))
        /\ RequestConnRecv(c)

\* handleDisconnect, line 262: if !conn.connected, for a T_DISCONNECT of the
\* peer.
HandleDisconnectReadsConnected ==
    \E d \in Demuxes :
        /\ pc[d] = "serve"
        /\ Len(tunnelInbound) > 0
        /\ isDisconnect(Recv(tunnelInbound), locals[d].self)
        /\ ServeRecv(d)

\* Management.Connect, line 425: if !conn.connected, under m.mu, for an
\* address that has an entry.
ManagementConnectReadsConnected ==
    \E c \in Clients : \E addr \in DeviceAddrs :
        connections[addr] # 0 /\ ManagementConnect(c, addr)

UnguardedAccess ==
    \/ SendReadsConnected
    \/ AwaitAckReadsSeqNumber
    \/ RequestConnWritesConnected
    \/ HandleDisconnectReadsConnected
    \/ ManagementConnectReadsConnected

\* C29: every read and every write of seqNumber, connected and lastSend of a
\* session is made with conn.mu held, in Send, awaitAck, requestConn, the
\* demux goroutine's handling of a disconnect, Disconnect and
\* Management.Connect: no step reads or writes them outside a section of
\* conn.mu.
C29_FieldsUnderSessionMutex == [][~UnguardedAccess]_vars

\* The positions of a goroutine that is about to hand a frame to the tunnel
\* (requestConn line 178, Disconnect line 139), waits for the confirmation of
\* the handshake (lines 186-210), sleeps in applyRateLimit (line 378) or
\* waits for the demux goroutine to end (line 158).
InProgress == {"connTx", "connWait", "sleep", "discTx", "discWait"}

\* C30: m.mu is held around the insert, the lookup and the remove of the map
\* only: no goroutine holds it while it waits for a handshake, sends on the
\* tunnel, sleeps for the rate limit or joins a demux goroutine, so that
\* GetConnection never waits for the connect or disconnect of another address.
C30_RegistryMutexBrief ==
    \A c \in Clients : mgmtMu = c => pc[c] \notin InProgress

(***************************************************************************)
(* The sessions, the codecs and the registry: what follows from the code.  *)
(***************************************************************************)
\* The demux goroutine of a session is started when its handshake succeeds
\* (lines 49-50), so that it was started tells that the session has been
\* connected.
WasConnected(s) == pc[Demux(s)] # "unborn"

\* C31: connected becomes true once, when the handshake of a session that
\* never was connected succeeds, and never again: a session that has been
\* connected stays the object it is, and a connection made later to the same
\* device is another session.
C31_ConnectedOnce ==
    [][\A s \in Sessions :
          /\ (~connected[s] /\ connected'[s]) =>
                 /\ ~WasConnected(s)
                 /\ \E c \in Clients : pc[c] = "connWait" /\ locals[c].self = s
          /\ WasConnected(s) =>
                 /\ pc'[Demux(s)] # "unborn"
                 /\ created'[s]
                 /\ targetAddr'[s] = targetAddr[s]]_vars

\* A session is closed and another session to the same device is connected.
C31_NewSessionAfterClose ==
    \E s, r \in Sessions :
        /\ s # r
        /\ WasConnected(s) /\ ~connected[s]
        /\ connected[r] /\ targetAddr[r] = targetAddr[s]

\* The variant of a control unit a command names.
ControlVariant(command) ==
    CASE command = Connect -> "ControlConn"
      [] command = Disconnect -> "ControlDisc"
      [] command = Ack -> "ControlAck"
      [] command = Nak -> "ControlNak"

UnitKinds == {"AppData", "ControlData", "ControlConn", "ControlDisc", "ControlAck", "ControlNak"}

\* C32: a control unit of two bytes is unpacked to the fields its second
\* byte holds: numbered is bit 6, the sequence number bits 5..2, the command
\* bits 1..0, as the variant the command names.
C32_ControlUnpack ==
    codecPc = "bytesParsed" /\ Len(codecWire) = 2 /\ codecWire[2] \in ControlBytes =>
        /\ codecOut.err = "none"
        /\ codecOut.unit.kind = ControlVariant(BitAnd(codecWire[2], 3))
        /\ codecOut.unit.numbered = (BitAnd(Shr(codecWire[2], 6), 1) = 1)
        /\ codecOut.unit.seq = BitAnd(Shr(codecWire[2], 2), 15)
        /\ codecOut.unit.command = BitAnd(codecWire[2], 3)

\* C37: unpackTransportUnit returns a unit or the short-input error for any
\* bytes: it reads no byte the input does not have and makes no payload of
\* negative length.
C37_UnpackTotal ==
    codecPc = "bytesParsed" =>
        \/ codecOut.err = ErrUnexpectedEOF /\ codecOut.unit = NoUnit
        \/ codecOut.err = "none" /\ codecOut.unit.kind \in UnitKinds

\* An escape command with the declared length 1 is unpacked, with no data.
C37_ExtendedWithoutData ==
    /\ codecPc = "bytesParsed"
    /\ codecWire = <<1, 3, 192>>
    /\ codecOut.err = "none"
    /\ codecOut.unit.data = <<>>

\* C33: a Send whose request is not an LDataReq wrapping an AppData returns
\* the payload error: it has handed no frame to the tunnel, connected is as
\* it was, and the sequence number it was given is used up, so that the next
\* request accepted is given the number after it.
C33_PayloadRejected ==
    [][\A c \in Clients :
          (pc[c] = "nextSeqNum" /\ pc'[c] # "nextSeqNum") =>
              LET s == locals[c].self
                  r == locals[c].req
              IN  IF r.prim = "LDataReq" /\ r.kind = "AppData"
                  THEN /\ locals'[c].req.seq = nextSeqNum(seqNumber[s])
                       /\ seqNumber'[s] = nextSeqNum(seqNumber[s])
                  ELSE /\ result' = Result(c, "Send", ErrPayload, NoMsg, 0, <<>>)
                       /\ pc'[c] = "idle"
                       /\ connected' = connected
                       /\ lastTx' = lastTx
                       /\ seqNumber'[s] = nextSeqNum(seqNumber[s])
      ]_vars

\* The first call was refused for its payload, and the request of the second
\* call has gone to the tunnel with the number 1.
C33_NumberAfterRefusal ==
    /\ result.err = ErrPayload
    /\ nAlloc = 2
    /\ \E c \in Clients :
          /\ pc[c] = "awaitAck"
          /\ locals[c].sent = <<Msg("LDataReq", SourceAddr, "devA", "AppData", TRUE, 1,
                                    MemoryRead)>>

\* A message exchanged between the tunnel's address and the device of session s.
OfSession(msg, s) ==
    \/ msg.src = targetAddr[s] /\ msg.dst = LocalAddr
    \/ msg.src = LocalAddr /\ msg.dst = targetAddr[s]

\* C34: every message in conn.inbound of a session, and so every T_ACK and
\* every response a Send takes, was exchanged between the tunnel's address
\* and the device of that session.
C34_InboundOfSession ==
    \A s \in Sessions :
        created[s] => \A i \in 1 .. Len(inbound[s]) : OfSession(inbound[s][i], s)

\* A reader takes the message at the head of the tunnel's inbound channel:
\* the demux goroutine of a session, or the handshake of one.
TakenBy(s) ==
    /\ Len(tunnelInbound) > 0
    /\ \/ pc[Demux(s)] = "serve" /\ ServeRecv(Demux(s))
       \/ \E c \in Clients : pc[c] = "connWait" /\ locals[c].self = s /\ RequestConnRecv(c)

\* C35: with several readers on one tunnel (the demux goroutines of the
\* sessions, and a handshake in progress) no message is lost to the session
\* it belongs to because another reader took it: the confirmation of a
\* handshake and a T_ACK are taken by their own session only.
C35_TakenByOwnSession ==
    [][\A s \in Sessions : TakenBy(s) => OfSession(Head(tunnelInbound), s)]_vars

\* The loop over the blocks is left.
ScanDone == codecPc \notin {"blockParsing", "resParsing"}

\* C36: DescriptionBlock.Unpack and SearchResExt.Unpack terminate on every
\* input: a loop that takes its turns leaves the loop, by a return or by the
\* end of the run, also when a block of an unknown type or a block that
\* declares the length 0 is read.
C36_UnpackTerminates == <>ScanDone

\* Goroutine c is in Management.Disconnect or Management.Close.
InManagement(c) == locals[c].mgmt \in {"Disconnect", "Close"}

\* C38: every call of Management.Disconnect and of Management.Close returns,
\* and with its return the registry mutex is free again, whatever the device
\* and the tunnel do to the session meanwhile.
C38_ManagementReturns ==
    \A c \in Clients : InManagement(c) ~> (pc[c] = "idle" /\ mgmtMu # c)

\* A T_DISCONNECT of session s has been handed to the tunnel: a Disconnect
\* goes on behind the tunnel's Send, which returned nil.
DisconnectHanded(s) ==
    \E p \in Procs : /\ pc[p] \in {"discMark", "discSelect", "discClose", "discWait"}
                     /\ locals[p].self = s
                     /\ locals[p].err = "none"

\* A step in which goroutine p hands a frame of session s to the tunnel.
HandsFrame(p, s) ==
    /\ locals[p].self = s
    /\ \/ Len(locals'[p].sent) > Len(locals[p].sent)
       \/ pc[p] = "ackTx" /\ Len(result'.sent) > Len(locals[p].sent)

\* C39: once a T_DISCONNECT of a session has been handed to the tunnel, the
\* session hands no further frame to it: no data frame, no T_ACK and no
\* second T_DISCONNECT.
C39_SilentAfterDisconnect ==
    [][\A s \in Sessions : DisconnectHanded(s) => \A p \in Procs : ~HandsFrame(p, s)]_vars

\* Connect, lines 434-436: NewP2PConnection returned an error and Connect
\* returns it.
ConnectFails(c) ==
    /\ pc[c] = "mgmtConnectRet"
    /\ locals[c].err # "none"
    /\ pc'[c] = "idle"

\* C40: a Management.Connect that fails because the session could not be
\* created leaves no entry under its address, the stale one it found
\* included; while a Connect is under way the entries of the other addresses
\* stay as they are; and every entry of the registry is a session whose
\* handshake succeeded.
C40_FailedConnectLeavesNoEntry ==
    [][/\ \A c \in Clients : ConnectFails(c) => connections'[locals[c].addr] = 0
       /\ \A c \in Clients :
             locals[c].mgmt = "Connect" =>
                \A a \in DeviceAddrs \ {locals[c].addr} : connections'[a] = connections[a]
       /\ \A a \in DeviceAddrs :
             connections'[a] # 0 => WasConnected(connections[a])']_vars
\* Connect, Close and a second Connect to devA, which failed: the entry that
\* Close left behind is gone.
C40_StaleEntryEvicted ==
    /\ calls >= MgmtCalls - 3
    /\ mgmtDone
    /\ result.op = "Management.Connect"
    /\ result.err # "none"
    /\ connections["devA"] = 0
    /\ \E s \in Sessions : targetAddr[s] = "devA" /\ WasConnected(s) /\ ~connected[s]

====
